---- MODULE Spec2Model ----
(***************************************************************************)
(* Model of the memex persistence engine: the content-addressed chunk     *)
(* store (store.ChunkStore), the hash-chained action log                  *)
(* (transaction.ActionStore) and the repository that composes them        *)
(* (repository.Repository).                                               *)
(*                                                                         *)
(* Byte strings are records tagged by the field k:                         *)
(*   "bin"    raw content bytes, b is the byte sequence                    *)
(*   "node"   the JSON text of a core.Node                                 *)
(*   "link"   the JSON text of a core.Link                                 *)
(*   "frag"   the i-th chunk of a JSON text that the chunker split         *)
(*   "cat"    any other concatenation of chunk payloads                    *)
(*   "raw"    the 32 bytes sha256(of)                                      *)
(*   "hex"    the 64 hex characters of sha256(of)                          *)
(*   "pfxof"  the import prefix followed by a string that is not "bin"     *)
(*   "hexof"  the hex encoding of a string that is neither "bin" nor "raw" *)
(*   "tail"   the last n bytes of a longer string that is not "bin"        *)
(*   "patched" the 32 bytes of a hash some of which were written over      *)
(* Every string whose bytes are known (ids a caller chooses, node and link *)
(* types, metadata keys, the empty string) is a "bin".                     *)
(* SHA-256 is modelled as injective: the hash of p is the record           *)
(* [k |-> "raw", of |-> p].  A hash value is taken to differ from every    *)
(* string whose bytes are known and to be no text of hex digits.           *)
(***************************************************************************)
EXTENDS Integers, Sequences, FiniteSets, TLC

VARIABLES
    phase,       \* "open" | "closed": the Repository state machine
    file,        \* the chunk records of the .mx file, in append order
    index,       \* ChunkStore.index: key string -> file offset
    header,      \* Repository.header (in memory)
    diskHeader,  \* the header bytes at offset 0 of the .mx file
    log,         \* the records of the action log file, in append order
    lastHash,    \* ActionStore.lastHash
    clock,       \* the wall clock, the nanosecond within its second
    ops,         \* number of API calls made (bounds the model)
    liveNodes,   \* history: ids added as nodes and not deleted since
    deadNodes,   \* history: ids added as nodes, deleted and not re-added
    mu,          \* the mutex that is followed, 0 when free, else the holding
                 \* thread: ActionStore.mu in SpecLog and SpecHistory,
                 \* ChunkStore.mutex in SpecConcurrent and SpecCrash
    pc,          \* per thread: its position inside RecordAction
    pending,     \* per thread: the Action it is building
    logPos,      \* the offset of as.file, the one handle of the action log,
                 \* in bytes (followed in SpecHistory)
    logLens,     \* the number of bytes of the JSON text of each record of
                 \* the action log (followed in SpecHistory)
    filePos,     \* the offset of r.file, the handle updateHeader writes
                 \* through (followed in SpecConcurrent)
    wall,        \* the wall clock, in whole seconds since 1970-01-01T00:00:00Z;
                 \* Create runs at second 0
    unsynced     \* the writes to the store file that no s.file.Sync() has
                 \* followed yet, by the segment of the file they were
                 \* made to (followed in SpecCrash)

vars == <<phase, file, index, header, diskHeader, log, lastHash, clock, ops,
          liveNodes, deadNodes, mu, pc, pending, logPos, logLens, filePos,
          wall, unsynced>>

\* the state of the machine around the repository: file offsets, time and
\* the writes the disk may not hold yet
envVars == <<logPos, logLens, filePos, wall, unsynced>>
repoVars == <<phase, file, index, header, diskHeader, log, lastHash, clock,
              ops, liveNodes, deadNodes, envVars>>
threadVars == <<mu, pc, pending, envVars>>

(***************************************************************************)
(* Bounds of the model.                                                    *)
(***************************************************************************)
MaxOps == 3
MaxStoreOps == 3
MaxCrashOps == 2
MaxRecords == 4
NumThreads == 2
MaxSeconds == 1
MaxNanos == 1

(***************************************************************************)
(* Strings, hashing and hex encoding.                                      *)
(***************************************************************************)
Bin(b) == [k |-> "bin", b |-> b]
NoBytes == Bin(<<>>)
EmptyString == NoBytes

\* a []byte is nil or has an array behind it: NoBytes is the nil slice,
\* EmptyBytes the slice of no byte that is not nil ([]byte{}), and a slice
\* of one byte or more is never nil
EmptyBytes == [k |-> "bin", b |-> <<>>, made |-> TRUE]
\* b[:n] of an array that was made: the slice of the bytes b
Slice(b) == IF b = <<>> THEN EmptyBytes ELSE Bin(b)
\* the bytes a slice holds, the same for the nil slice and the empty one
BytesOf(p) ==
    CHOOSE y \in {IF x = EmptyBytes THEN NoBytes ELSE x : x \in {p}} : TRUE

\* "node-1", "node-2": ids a caller chooses
Label(n) == Bin(<<110, 111, 100, 101, 45, 48 + n>>)
\* an id of 64 characters that is not hex: 63 times "x" and a digit
Label64(n) == Bin([i \in 1..64 |-> IF i = 64 THEN 48 + n ELSE 120])
\* the 32 zero bytes of an unset PrevHash
Zero32 == Bin([i \in 1..32 |-> 0])
\* the node type "note" and the link type "test"
NoteType == Bin(<<110, 111, 116, 101>>)
TestType == Bin(<<116, 101, 115, 116>>)

\* sha256.Sum256
Sha256(p) == [k |-> "raw", of |-> BytesOf(p)]

\* the prefix "imported-" that an import puts before an id
ImportPrefix == <<105, 109, 112, 111, 114, 116, 101, 100, 45>>

\* len(s)
RECURSIVE StrLen(_)
StrLen(s) ==
    CASE s.k = "bin"   -> Len(s.b)
      [] s.k = "raw"   -> 32
      [] s.k = "patched" -> 32
      [] s.k = "hex"   -> 64
      [] s.k = "tail"  -> s.n
      [] s.k = "pfxof" -> Len(ImportPrefix) + StrLen(s.of)
      [] s.k = "hexof" -> 2 * StrLen(s.of)

\* the hex digit of a value below 16 (lower case)
HexDigit(n) == IF n < 10 THEN 48 + n ELSE 87 + n

\* the value of a hex digit, -1 for any other byte
HexValue(c) ==
    IF c >= 48 /\ c <= 57 THEN c - 48
    ELSE IF c >= 97 /\ c <= 102 THEN c - 87
    ELSE IF c >= 65 /\ c <= 70 THEN c - 55
    ELSE -1

EncodeBytes(b) ==
    [i \in 1..(2 * Len(b)) |->
        IF i % 2 = 1 THEN HexDigit(b[(i + 1) \div 2] \div 16)
        ELSE HexDigit(b[i \div 2] % 16)]

\* the number of leading pairs of hex digits of b
RECURSIVE HexPairs(_, _)
HexPairs(b, i) ==
    IF 2 * i <= Len(b) /\ HexValue(b[2 * i - 1]) >= 0 /\ HexValue(b[2 * i]) >= 0
    THEN HexPairs(b, i + 1)
    ELSE i - 1

DecodeBytes(b) ==
    [i \in 1..HexPairs(b, 1) |->
        16 * HexValue(b[2 * i - 1]) + HexValue(b[2 * i])]

\* hex.EncodeToString
HexEncodeToString(s) ==
    CASE s.k = "bin" -> Bin(EncodeBytes(s.b))
      [] s.k = "raw" -> [k |-> "hex", of |-> s.of]
      [] OTHER       -> [k |-> "hexof", of |-> s]

\* hex.DecodeString: ok is FALSE when the string is not hex, and v is then
\* the bytes decoded before the first byte that is no hex digit (no caller
\* reads them; they are left empty where the bytes are not known)
HexDecodeString(s) ==
    CASE s.k = "bin"   -> [ok |-> 2 * HexPairs(s.b, 1) = Len(s.b),
                           v |-> Bin(DecodeBytes(s.b))]
      [] s.k = "hex"   -> [ok |-> TRUE, v |-> [k |-> "raw", of |-> s.of]]
      [] s.k = "hexof" -> [ok |-> TRUE, v |-> s.of]
      [] OTHER         -> [ok |-> FALSE, v |-> NoBytes]

\* s[len(s)-n:], the last n bytes of s
RECURSIVE Last(_, _)
Last(n, s) ==
    IF n = 0 THEN NoBytes
    ELSE IF n >= StrLen(s) THEN s
    ELSE IF s.k = "bin" THEN Bin(SubSeq(s.b, Len(s.b) - n + 1, Len(s.b)))
    ELSE IF s.k = "tail" THEN Last(n, s.of)
    ELSE IF s.k = "pfxof" /\ n <= StrLen(s.of) THEN Last(n, s.of)
    ELSE IF s.k = "hexof" /\ n % 2 = 0
    THEN HexEncodeToString(Last(n \div 2, s.of))
    ELSE IF s.k = "hex" /\ n % 2 = 0
    THEN HexEncodeToString(Last(n \div 2, [k |-> "raw", of |-> s.of]))
    ELSE [k |-> "tail", n |-> n, of |-> s]

\* s[len(s)-64:] for a string longer than 64 characters
Suffix64(s) == Last(64, s)

\* opts.Prefix + id of an import with the prefix "imported-"
PrefixID(id) ==
    IF id.k = "bin" THEN Bin(ImportPrefix \o id.b)
    ELSE [k |-> "pfxof", of |-> id]

\* the prefix before the 64 hex characters of sha256(p)
Prefixed(p) == PrefixID(HexEncodeToString(Sha256(p)))

(***************************************************************************)
(* Byte payloads and the content-defined chunker.                          *)
(***************************************************************************)
MinChunkSize == 1
MaxChunkSize == 3
EnvelopeOverhead == 1

\* the rolling-hash boundary rule: a chunk may end after this byte
IsBoundary(byte) == byte = 0

\* the length of a payload, in the unit of the chunk sizes: the JSON text of
\* a link counts EnvelopeOverhead, that of a node EnvelopeOverhead and the
\* content it carries, and the text carries the count as size
Size(p) ==
    CASE p.k = "bin"  -> Len(p.b)
      [] p.k \in {"node", "link"} -> p.size
      [] OTHER        -> 1

\* len(data): the bytes of a payload.  Raw bytes count themselves, bytes
\* that were not written count nothing, and every other payload carries
\* its number of bytes as n
ByteLen(p) ==
    CASE p.k = "bin"       -> Len(p.b)
      [] p.k = "unwritten" -> 0
      [] OTHER             -> p.n

RECURSIVE SplitBytes(_, _, _)
SplitBytes(b, start, i) ==
    IF i > Len(b)
    THEN IF start > Len(b) THEN <<>> ELSE <<Bin(SubSeq(b, start, Len(b)))>>
    ELSE IF i - start + 1 >= MinChunkSize
            /\ (IsBoundary(b[i]) \/ i - start + 1 = MaxChunkSize)
         THEN <<Bin(SubSeq(b, start, i))>> \o SplitBytes(b, i + 1, i + 1)
         ELSE SplitBytes(b, start, i + 1)

NumFrags(p) == (Size(p) + MaxChunkSize - 1) \div MaxChunkSize

\* the bytes of the i-th of the nf chunks of a text of n bytes: the chunks
\* before the last are of one length, the last is the rest
FragLen(n, nf, i) == IF i < nf THEN n \div nf ELSE n - (nf - 1) * (n \div nf)

\* Chunker.Split
Split(p) ==
    IF p.k = "bin" THEN SplitBytes(p.b, 1, 1)
    ELSE IF Size(p) <= MaxChunkSize THEN <<p>>
    ELSE [i \in 1..NumFrags(p) |->
             [k |-> "frag", of |-> p, i |-> i,
              n |-> FragLen(ByteLen(p), NumFrags(p), i)]]

RECURSIVE ConcatBin(_)
ConcatBin(ps) ==
    IF ps = <<>> THEN <<>> ELSE Head(ps).b \o ConcatBin(Tail(ps))

RECURSIVE ConcatLen(_)
ConcatLen(ps) ==
    IF ps = <<>> THEN 0 ELSE ByteLen(Head(ps)) + ConcatLen(Tail(ps))

\* bytes.Buffer: the concatenation of chunk payloads
Concat(ps) ==
    IF Len(ps) = 0 THEN NoBytes
    ELSE IF Len(ps) = 1 THEN ps[1]
    ELSE IF \A i \in 1..Len(ps) : ps[i].k = "bin" THEN Bin(ConcatBin(ps))
    ELSE IF ps[1].k = "frag" /\ ps = Split(ps[1].of) THEN ps[1].of
    ELSE [k |-> "cat", parts |-> ps, n |-> ConcatLen(ps)]

(***************************************************************************)
(* The world the operations act on: the files and the in-memory fields of  *)
(* the Repository, its ChunkStore and its ActionStore.                     *)
(***************************************************************************)
World ==
    [file |-> file, index |-> index, header |-> header,
     diskHeader |-> diskHeader, log |-> log, lastHash |-> lastHash,
     clock |-> clock, wall |-> wall]

\* the one element of a set of one element
Only(S) == CHOOSE x \in S : TRUE

Assign(f, key, off) ==
    [x \in (DOMAIN f) \cup {key} |-> IF x = key THEN off ELSE f[x]]

(***************************************************************************)
(* transaction.ActionStore                                                 *)
(***************************************************************************)
ActionPutContent == "PutContent"
ActionDeleteContent == "DeleteContent"
ActionAddNode == "AddNode"
ActionDeleteNode == "DeleteNode"
ActionAddLink == "AddLink"
ActionDeleteLink == "DeleteLink"

\* Action.Hash: the self hash covers every field of the action
ActionHash(a) ==
    Sha256([k |-> "actionfields", Type |-> a.Type, Payload |-> a.Payload,
            Timestamp |-> a.Timestamp, PrevHash |-> a.PrevHash,
            StateHash |-> a.StateHash])

\* calculateStateHash: a placeholder, always the zero value
calculateStateHash(a) == Zero32

\* json.Marshal(action) and json.Unmarshal(data, &action)
MarshalAction(a) ==
    [k |-> "action", Type |-> a.Type, Payload |-> a.Payload,
     Timestamp |-> a.Timestamp, PrevHash |-> a.PrevHash,
     StateHash |-> a.StateHash]
UnmarshalAction(d) ==
    [Type |-> d.Type, Payload |-> d.Payload, Timestamp |-> d.Timestamp,
     PrevHash |-> d.PrevHash, StateHash |-> d.StateHash]

\* the Action literal of RecordAction: StateHash is still the zero value
NewAction(actionType, payload, now, prev) ==
    [Type |-> actionType, Payload |-> payload, Timestamp |-> now,
     PrevHash |-> prev, StateHash |-> Zero32]

\* the bytes of a record whose write was cut short: its length prefix and a
\* part of its JSON text, or its length prefix alone
TruncatedRecord == [k |-> "truncated", part |-> "data"]
LengthOnlyRecord == [k |-> "truncated", part |-> "length"]

\* the calls inside writeAction that can return an error: json.Marshal, the
\* write of the length and the write of the data
RecordFailures == {"marshal", "length", "data"}

\* writeAction that returns an error: the file is opened with O_APPEND and
\* nothing is taken back, so the length written before a failed write of the
\* data stays in the log
writeActionFails(lg, a, at) ==
    IF at = "data" THEN Append(lg, LengthOnlyRecord) ELSE lg

\* a writeAction that returns without writing the record
writeActionSkipped(lg, a) == lg

\* writeAction: the length prefix and the JSON text, appended to the log
writeAction(lg, a) == Append(lg, MarshalAction(a))

\* time.Now(): the instant the clock shows.  Two readings with no tick of the
\* clock between them are the same instant
TimeNow(w) == [sec |-> w.wall, nsec |-> w.clock]

\* RecordAction, run to completion under ActionStore.mu
RecordAction(w, actionType, payload) ==
    LET built == NewAction(actionType, payload, TimeNow(w), w.lastHash)
        a == [built EXCEPT !.StateHash = calculateStateHash(built)]
    IN  [w EXCEPT !.log = writeAction(@, a),
                  !.lastHash = ActionHash(a)]

\* readAction: json.Unmarshal accepts the bytes of a record
Decodable(d) == d.k = "action"

\* the records readAction returns before GetHistory ends: a length prefix
\* with no byte after it reads as the end of the file (io.EOF of ReadFull)
ReadableLog(lg) ==
    IF Len(lg) > 0 /\ lg[Len(lg)] = LengthOnlyRecord
    THEN SubSeq(lg, 1, Len(lg) - 1) ELSE lg

\* GetHistory: every record of the log, decoded in file order; err is TRUE
\* when the bytes a length prefix announces are not there or are not the
\* JSON text of an action
GetHistory(lg) ==
    LET recs == ReadableLog(lg)
        bad == {i \in 1..Len(recs) : ~Decodable(recs[i])}
    IN  [err |-> bad # {},
         actions |-> IF bad # {} THEN <<>>
                     ELSE [i \in 1..Len(recs) |-> UnmarshalAction(recs[i])]]

\* Action.Verify: the action's prevHash is the self hash of its predecessor
ActionVerify(a, hasPrev, prev) == (~hasPrev) \/ a.PrevHash = ActionHash(prev)

\* VerifyHistory
VerifyHistory(lg) ==
    /\ ~GetHistory(lg).err
    /\ LET actions == GetHistory(lg).actions
       IN  \A i \in 1..Len(actions) :
               ActionVerify(actions[i], i > 1,
                            actions[IF i > 1 THEN i - 1 ELSE i])

(***************************************************************************)
(* readLastAction scans backward from the end of the log: at each pos it   *)
(* reads the four bytes before pos as a length L and, when 0 < L < pos,    *)
(* tries to decode a record at pos-4-L.  Those four bytes are a small      *)
(* number only where they are the length prefix of a record j, so the      *)
(* record decoded, if any, starts len(j) bytes before the start of record  *)
(* j: it is a record before j, never the last one.  Whether any lengths    *)
(* line up is decided by the JSON lengths, which the model does not fix:   *)
(* either the scan fails (always so with a single record) and the caller   *)
(* keeps the zero hash, or it returns a record before the last, any of     *)
(* them.                                                                   *)
(***************************************************************************)
readLastAction(lg) ==
    {[ok |-> FALSE, hash |-> Zero32]} \cup
    {[ok |-> TRUE, hash |-> ActionHash(UnmarshalAction(lg[i]))] :
        i \in {j \in 1..(Len(lg) - 1) : Decodable(lg[j])}}

\* the bytes of the repository header and of a chunk header
HeaderWidths == <<7, 1, 1, 32, 8, 8, 4, 4, 8, 8, 31>>

\* binary.Size of a struct of fixed-width fields: encoding/binary writes the
\* fields one after the other with no padding
RECURSIVE BinarySize(_)
BinarySize(widths) ==
    IF widths = <<>> THEN 0 ELSE Head(widths) + BinarySize(Tail(widths))

HeaderSize == BinarySize(HeaderWidths)
ChunkHeaderSize == 52

\* the bytes a chunk header announces and the file does not hold
Unwritten(data) == [k |-> "unwritten", of |-> data]

\* the bytes of a record over which a header of the repository was written
Overwritten(data) == [k |-> "overwritten", n |-> ByteLen(data)]

\* the data of a record some of whose bytes were written over, and the bytes
\* read in place of data that was not written
Garbled(n) == [k |-> "garbled", n |-> n]

\* the n bytes of data after a chunk header whose Size was written over and
\* now announces size bytes
Resized(n, size) == [k |-> "resized", n |-> n, size |-> size]

\* a segment of the file is a chunk record or a run of stray bytes
IsRecord(seg) == "ref" \in DOMAIN seg

SegmentLen(seg) ==
    IF IsRecord(seg) THEN ChunkHeaderSize + ByteLen(seg.data) ELSE seg.n

\* the byte offset at which segment i of the file starts
RECURSIVE StartOf(_, _)
StartOf(f, i) ==
    IF i = 1 THEN HeaderSize ELSE StartOf(f, i - 1) + SegmentLen(f[i - 1])

FileSize(f) == StartOf(f, Len(f) + 1)

\* the segment starts with the magic of a chunk header
HasMagic(seg) == IsRecord(seg) /\ seg.data.k # "overwritten"

\* header.Size: the bytes of data the chunk header announces
AnnouncedLen(seg) ==
    IF seg.data.k = "unwritten" THEN ByteLen(seg.data.of)
    ELSE IF seg.data.k = "resized" THEN seg.data.size
    ELSE ByteLen(seg.data)

\* loadIndex, from offset on: a header with the magic of a chunk is read only
\* at the start of a record; anywhere else the scan moves on by four bytes; a
\* header that does not fit before the end of the file ends it.  The scan of
\* Open starts at offset 0, on the header of the repository
RECURSIVE loadIndex(_, _, _)
loadIndex(f, offset, idx) ==
    IF offset >= FileSize(f) \/ offset + ChunkHeaderSize > FileSize(f)
    THEN idx
    ELSE IF \E i \in 1..Len(f) : HasMagic(f[i]) /\ StartOf(f, i) = offset
    THEN LET i == CHOOSE j \in 1..Len(f) :
                      HasMagic(f[j]) /\ StartOf(f, j) = offset
         IN  loadIndex(f, offset + ChunkHeaderSize + AnnouncedLen(f[i]),
                 IF f[i].ref > 0
                 THEN Assign(Assign(idx, HexEncodeToString(f[i].hash), i),
                             f[i].hash, i)
                 ELSE idx)
    ELSE loadIndex(f, offset + 4, idx)

(***************************************************************************)
(* The store file on the disk.  A write reaches the disk for sure only by  *)
(* the next s.file.Sync(); until then the disk holds, of each region the   *)
(* write covers, what the write put there or what was there before.        *)
(* unsynced says for each segment of the file written to since the last    *)
(* Sync: refs, the reference counts its header held before each rewrite;   *)
(* new, whether its header was first written since; data, whether its data *)
(* was written since.                                                      *)
(***************************************************************************)
\* no write is waiting for a Sync
Synced == [i \in {} |-> [refs |-> {}, new |-> FALSE, data |-> FALSE]]

\* writeAt of a chunk header to segment i of the file f: the header of a new
\* record behind the last segment, or the header of a record written again
HeaderWrite(u, f, i) ==
    IF i > Len(f) THEN Assign(u, i, [refs |-> {}, new |-> TRUE, data |-> FALSE])
    ELSE IF i \in DOMAIN u THEN [u EXCEPT ![i].refs = @ \cup {f[i].ref}]
    ELSE Assign(u, i, [refs |-> {f[i].ref}, new |-> FALSE, data |-> FALSE])

\* s.file.WriteAt of the data of segment i
DataWrite(u, i) ==
    IF i \in DOMAIN u THEN [u EXCEPT ![i].data = TRUE]
    ELSE Assign(u, i, [refs |-> {}, new |-> FALSE, data |-> TRUE])

\* the place of a segment no byte of which reached the disk
Absent(n) == [k |-> "absent", n |-> n]

\* what the disk may hold in the place of segment i of the file f: its
\* header with the count of the file or with one it held before, or no
\* header when the record is new; its data, or none of it when the data was
\* written since the last Sync.  Data with no header before it are stray
\* bytes
VersionsOf(f, u, i) ==
    IF i \notin DOMAIN u THEN {f[i]}
    ELSE LET written == f[i].data.k # "unwritten"
             data == IF written THEN f[i].data ELSE f[i].data.of
             refs == {f[i].ref} \cup u[i].refs
         IN  (IF written THEN {[f[i] EXCEPT !.ref = r] : r \in refs} ELSE {})
             \cup (IF ~written \/ u[i].data
                   THEN {[f[i] EXCEPT !.ref = r, !.data = Unwritten(data)] :
                            r \in refs}
                   ELSE {})
             \cup (IF u[i].new /\ written
                   THEN {[k |-> "stray", n |-> SegmentLen(f[i])]} ELSE {})
             \cup (IF u[i].new /\ (~written \/ u[i].data)
                   THEN {Absent(SegmentLen(f[i]))} ELSE {})

\* a choice of what the disk holds for each of the first i segments
RECURSIVE DiskSegments(_, _, _)
DiskSegments(f, u, i) ==
    IF i = 0 THEN {<<>>}
    ELSE {Append(g, v) : g \in DiskSegments(f, u, i - 1),
                         v \in VersionsOf(f, u, i)}

\* the file of a choice g: it ends with the last segment of which a byte is
\* on the disk.  Before that segment the bytes that did not reach the disk
\* are zeros: stray bytes in the place of a segment, and unreadable data
\* behind a header whose data the file f holds
DiskFile(f, g) ==
    LET kept == {i \in 1..Len(g) : IsRecord(g[i]) \/ g[i].k # "absent"}
        last == IF kept = {} THEN 0
                ELSE CHOOSE i \in kept : \A j \in kept : j <= i
    IN  [i \in 1..last |->
            IF ~IsRecord(g[i]) /\ g[i].k = "absent"
            THEN [k |-> "stray", n |-> g[i].n]
            ELSE IF /\ i < last /\ IsRecord(g[i])
                    /\ g[i].data.k = "unwritten"
                    /\ f[i].data.k # "unwritten"
            THEN [g[i] EXCEPT !.data = Garbled(ByteLen(f[i].data))]
            ELSE g[i]]

(***************************************************************************)
(* store.ChunkStore                                                        *)
(***************************************************************************)
\* writeChunk: append a record with reference count 1.  crc32 of the header
\* with a zero Checksum is its last four bytes, so the checksum of every
\* header is 0: sum is "ok" when the stored Checksum is 0
writeChunk(f, data, hash) ==
    Append(f, [hash |-> hash, data |-> BytesOf(data), ref |-> 1,
               sum |-> "ok"])

\* readChunk returns an error: the magic is wrong, the stored checksum is
\* not the one of the header, or the data the header announces ends after
\* the end of the file, which takes a header that announces more than the
\* bytes of data the record has
readChunkFails(f, off) ==
    \/ ~HasMagic(f[off])
    \/ f[off].sum = "bad"
    \/ /\ AnnouncedLen(f[off]) > ByteLen(f[off].data)
       /\ StartOf(f, off) + ChunkHeaderSize + AnnouncedLen(f[off])
              > FileSize(f)

\* readChunk: the bytes that follow the header in the file, as many as it
\* announces.  Where the data was not written they are those of whatever
\* follows
readChunk(f, off) ==
    IF AnnouncedLen(f[off]) = 0 THEN NoBytes
    ELSE IF f[off].data.k \in {"unwritten", "resized"}
    THEN Garbled(AnnouncedLen(f[off]))
    ELSE f[off].data

\* a Put that finds the chunk indexed and leaves its header as it was
incrementRefCountSkipped(f, off) == [f |-> f, err |-> FALSE]

\* incrementRefCount: "invalid chunk magic" for a record that lost its
\* header, else the header of the record at off is written again with
\* RefCount++ and the checksum of the new header
incrementRefCount(f, off) ==
    IF ~HasMagic(f[off]) THEN [f |-> f, err |-> TRUE]
    ELSE [f |-> [f EXCEPT ![off].ref = @ + 1, ![off].sum = "ok"],
          err |-> FALSE]

\* the keys decrementRefCount drops from the index beside hashStr
EquivalentKeys(hashStr) ==
    IF StrLen(hashStr) = 64
    THEN IF HexDecodeString(hashStr).ok
         THEN {HexDecodeString(hashStr).v} ELSE {}
    ELSE IF StrLen(hashStr) = 32 THEN {HexEncodeToString(hashStr)}
    ELSE IF StrLen(hashStr) > 64
    THEN IF HexDecodeString(Suffix64(hashStr)).ok
         THEN {HexDecodeString(Suffix64(hashStr)).v} ELSE {}
    ELSE {}

\* a decrementRefCount that reclaims the payload of a record whose count
\* reaches zero
decrementRefCountReclaims(w, off, hashStr) ==
    LET ref == IF w.file[off].ref > 0 THEN w.file[off].ref - 1
               ELSE w.file[off].ref
        gone == {hashStr} \cup EquivalentKeys(hashStr)
    IN  IF ~HasMagic(w.file[off]) THEN [w |-> w, err |-> TRUE]
        ELSE [w |-> [w EXCEPT !.file[off].ref = ref,
                              !.file[off].sum = "ok",
                              !.file[off].data = IF ref = 0 THEN NoBytes ELSE @,
                              !.index = IF ref = 0
                                        THEN [x \in (DOMAIN @) \ gone |-> @[x]]
                                        ELSE @],
              err |-> FALSE]

\* decrementRefCount: "invalid chunk magic" for a record that lost its
\* header, and the index stays as it was; else RefCount-- when it is above 0,
\* and at 0 hashStr and its equivalent keys leave the index
decrementRefCount(w, off, hashStr) ==
    LET ref == IF w.file[off].ref > 0 THEN w.file[off].ref - 1
               ELSE w.file[off].ref
        gone == {hashStr} \cup EquivalentKeys(hashStr)
    IN  IF ~HasMagic(w.file[off]) THEN [w |-> w, err |-> TRUE]
        ELSE [w |-> [w EXCEPT !.file[off].ref = ref,
                              !.file[off].sum = "ok",
                              !.index = IF ref = 0
                                        THEN [x \in (DOMAIN @) \ gone |-> @[x]]
                                        ELSE @],
              err |-> FALSE]

\* one pass of the loop of Put: the store after it, and whether
\* incrementRefCount returned an error
PutChunk(w, chunk) ==
    LET hash == Sha256(chunk)
        hashStr == HexEncodeToString(hash)
    IN  IF hashStr \in DOMAIN w.index
        THEN Only({[w |-> [w EXCEPT !.file = r.f], err |-> r.err] :
                      r \in {incrementRefCount(w.file, w.index[hashStr])}})
        ELSE [w |-> [w EXCEPT !.file = writeChunk(@, chunk, hash),
                              !.index = Assign(@, hashStr, Len(w.file) + 1)],
              err |-> FALSE]

\* the loop of Put from chunk i on: it ends at the first chunk whose
\* incrementRefCount returns an error
RECURSIVE PutChunks(_, _, _)
PutChunks(w, chunks, i) ==
    IF i > Len(chunks) THEN [w |-> w, err |-> FALSE]
    ELSE Only({IF r.err THEN r ELSE PutChunks(r.w, chunks, i + 1) :
                  r \in {PutChunk(w, chunks[i])}})

\* Put: the store after the call, whether it returned "updating ref count",
\* and the addresses it returns
Put(w, content) ==
    LET chunks == Split(content)
        w1 == RecordAction(w, ActionPutContent,
                           [size |-> ByteLen(content), nchunks |-> Len(chunks)])
    IN  Only({[w |-> r.w, err |-> r.err,
               addresses |-> IF r.err THEN <<>>
                             ELSE [i \in 1..Len(chunks) |->
                                      Sha256(chunks[i])]] :
                 r \in {PutChunks(w1, chunks, 1)}})

\* the extra index keys PutWithID sets beside the id itself
AliasKeys(id) ==
    (IF StrLen(id) = 64 /\ HexDecodeString(id).ok
     THEN {HexDecodeString(id).v} ELSE {})
    \cup (IF StrLen(id) = 32 THEN {HexEncodeToString(id)} ELSE {})
    \cup (IF StrLen(id) > 64 /\ HexDecodeString(Suffix64(id)).ok
          THEN {HexDecodeString(Suffix64(id)).v} ELSE {})

\* a PutWithID that leaves the record the id had as it was
PutWithIDKeepsPrior(w, id, content) ==
    LET off == Len(w.file) + 1
        keys == {id} \cup AliasKeys(id)
    IN  [w |-> [w EXCEPT !.file = writeChunk(@, content, Sha256(content)),
                         !.index = [x \in (DOMAIN @) \cup keys |->
                                       IF x \in keys THEN off ELSE @[x]]],
         err |-> FALSE]

\* PutWithID: "deleting existing chunk" when the record the id had lost
\* its header, else the content is appended as one chunk and the id and its
\* alias keys point at it
PutWithID(w, id, content) ==
    LET keys == {id} \cup AliasKeys(id)
    IN  Only({IF d.err THEN d
              ELSE [w |-> [d.w EXCEPT
                              !.file = writeChunk(@, content, Sha256(content)),
                              !.index = [x \in (DOMAIN @) \cup keys |->
                                            IF x \in keys
                                            THEN Len(d.w.file) + 1 ELSE @[x]]],
                    err |-> FALSE] :
                 d \in {IF id \in DOMAIN w.index
                        THEN decrementRefCount(w, w.index[id], id)
                        ELSE [w |-> w, err |-> FALSE]}})

\* the index lookup of Get: raw key, hex key, then the 64-character suffix
Resolve(idx, addr) ==
    LET hashStr == HexEncodeToString(addr)
    IN  IF addr \in DOMAIN idx THEN [ok |-> TRUE, off |-> idx[addr]]
        ELSE IF hashStr \in DOMAIN idx THEN [ok |-> TRUE, off |-> idx[hashStr]]
        ELSE IF StrLen(hashStr) > 64 /\ Suffix64(hashStr) \in DOMAIN idx
        THEN [ok |-> TRUE, off |-> idx[Suffix64(hashStr)]]
        ELSE [ok |-> FALSE, off |-> 0]

\* Get: err is TRUE for "chunk not found" and for a readChunk that fails
Get(w, addresses) ==
    Only({IF \E i \in 1..Len(addresses) :
                 ~at[i].ok \/ readChunkFails(w.file, at[i].off)
          THEN [err |-> TRUE, data |-> NoBytes]
          ELSE [err |-> FALSE,
                data |-> Concat([i \in 1..Len(addresses) |->
                                    readChunk(w.file, at[i].off)])] :
          at \in {[i \in 1..Len(addresses) |->
                      Resolve(w.index, addresses[i])]}})

\* the index key Delete finds for an address: the raw bytes, else their hex
DeleteKey(idx, addr) ==
    IF addr \in DOMAIN idx THEN addr ELSE HexEncodeToString(addr)

\* the loop of Delete from address i on: an address with no key is passed
\* over, and the loop ends at the first decrementRefCount that returns an
\* error
RECURSIVE DeleteChunks(_, _, _)
DeleteChunks(w, addresses, i) ==
    IF i > Len(addresses) THEN [w |-> w, err |-> FALSE]
    ELSE LET key == DeleteKey(w.index, addresses[i])
         IN  IF key \in DOMAIN w.index
             THEN Only({IF r.err THEN r
                        ELSE DeleteChunks(r.w, addresses, i + 1) :
                           r \in {decrementRefCount(w, w.index[key], key)}})
             ELSE DeleteChunks(w, addresses, i + 1)

\* Delete: the store after the call and whether it returned "updating ref
\* count"
Delete(w, addresses) ==
    DeleteChunks(RecordAction(w, ActionDeleteContent,
                              [addresses |-> addresses]),
                 addresses, 1)

\* the address ListChunks reports for an index key
AddrOfKey(key) ==
    IF HexDecodeString(key).ok THEN HexDecodeString(key).v ELSE key

\* the addresses of an index: one for each key, the same one for the keys
\* that decode to the same bytes
ChunkAddrs(idx) == {AddrOfKey(key) : key \in DOMAIN idx}

\* the elements of a set in an order, one order for one set
RECURSIVE SomeOrder(_)
SomeOrder(S) ==
    IF S = {} THEN <<>>
    ELSE LET x == CHOOSE y \in S : TRUE IN <<x>> \o SomeOrder(S \ {x})

RECURSIVE Dedup(_, _)
Dedup(s, seen) ==
    IF s = <<>> THEN <<>>
    ELSE IF Head(s) \in seen THEN Dedup(Tail(s), seen)
    ELSE <<Head(s)>> \o Dedup(Tail(s), seen \cup {Head(s)})

\* ListChunks: Go ranges over the index map in an order of its own choosing,
\* a new one for every range, and the address of a key is listed where the
\* range first meets one of its keys.  order is the sequence of addresses in
\* which this range meets them: those of the index are listed in that order,
\* and after them whatever addresses of the index the sequence leaves out.
\* Every sequence of the addresses of the index is the result for some order.
ListChunks(w, order) ==
    LET addrs == ChunkAddrs(w.index)
        met == Dedup(SelectSeq(order, LAMBDA a : a \in addrs), {})
    IN  met \o SomeOrder(addrs \ {met[i] : i \in 1..Len(met)})

\* the order of the k-th range of an operation that ranges more than once
OrderAt(orders, k) == IF k \in DOMAIN orders THEN orders[k] ELSE <<>>

EmptyIndex == [x \in {} |-> 0]

(***************************************************************************)
(* repository.Repository                                                   *)
(***************************************************************************)
\* time.Now().UTC().Unix(): the wall clock in whole seconds
Unix(w) == w.wall

\* metadata maps: the caller's keys, and the "chunks" list AddNode adds
\* NoMeta is the map of no key that make(map[string]interface{}) returns,
\* NilMeta the nil map: it has no key that is a string
NoMeta == [x \in {} |-> 0]
NilMeta == [x \in {[k |-> "nil"]} |-> [k |-> "nil"]]
WeightKey == Bin(<<119, 101, 105, 103, 104, 116>>)
OrderKey == Bin(<<111, 114, 100, 101, 114>>)
ChunksKey == Bin(<<99, 104, 117, 110, 107, 115>>)

(***************************************************************************)
(* encoding/json, as json.Unmarshal(data, &node) and json.Unmarshal(data,  *)
(* &link) use it: the scanner that says whether the bytes are a JSON text, *)
(* and the decoder that stores the value in a core.Node or a core.Link.    *)
(* The text is read into a tree of tokens, tagged by the field t:          *)
(*   "null", "true", "false"                                               *)
(*   "number"  text is the bytes of the literal                            *)
(*   "string"  raw is the bytes between the quotes, s the string they spell*)
(*   "array"   items is the sequence of the elements                       *)
(*   "object"  members is the sequence of [key |-> string, val |-> tree]   *)
(* and, in a text the encoder wrote, where not every byte is spelled out:  *)
(*   "text"    the literal of the string of, whose characters are letters, *)
(*             digits and "-" and stand for themselves                     *)
(*   "base64"  the base64 literal of the bytes of the payload of           *)
(* A value decoded into an interface{} is, tagged by the field k: a "bin"  *)
(* (string), a "num" (float64), a "bool", a "nil", an "arr"                *)
(* ([]interface{}) or an "obj" (map[string]interface{}).                   *)
(***************************************************************************)
MaxNestingDepth == 10000
ReplacementChar == 65533

\* the byte at position i, -1 past the end
At(b, i) == IF i >= 1 /\ i <= Len(b) THEN b[i] ELSE -1

IsDigit(c) == c >= 48 /\ c <= 57

\* the first position from i on where a byte of the set stands, and the
\* first where a byte that is not of the set stands: the position after the
\* end when there is none
Find(b, i, set) ==
    IF i > Len(b) THEN i
    ELSE CHOOSE j \in i..(Len(b) + 1) :
             /\ j = Len(b) + 1 \/ b[j] \in set
             /\ \A n \in i..(j - 1) : b[n] \notin set
Skip(b, i, set) ==
    IF i > Len(b) THEN i
    ELSE CHOOSE j \in i..(Len(b) + 1) :
             /\ j = Len(b) + 1 \/ b[j] \notin set
             /\ \A n \in i..(j - 1) : b[n] \in set

SkipSpace(b, i) == Skip(b, i, {32, 9, 13, 10})
SkipDigits(b, i) == Skip(b, i, 48..57)

\* the bytes that end a run of plain bytes in a string: the quote, the
\* backslash and the control characters
StringStops == (0..31) \cup {34, 92}

\* the position after the closing quote of the string whose first byte
\* after the opening quote is at i, 0 when the bytes are no string; j is the
\* position where the plain bytes from i on end
RECURSIVE StringEnd(_, _)
StringEndAt(b, j) ==
    IF At(b, j) = 34 THEN j + 1
    ELSE IF At(b, j) # 92 THEN 0
    ELSE IF At(b, j + 1) \in {34, 92, 47, 98, 102, 110, 114, 116}
    THEN StringEnd(b, j + 2)
    ELSE IF At(b, j + 1) = 117
            /\ \A n \in 2..5 : HexValue(At(b, j + n)) >= 0
    THEN StringEnd(b, j + 6)
    ELSE 0
StringEnd(b, i) == StringEndAt(b, Find(b, i, StringStops))

\* the position after the digits that start at i, 0 when there is none
DigitsEnd(b, i) == IF IsDigit(At(b, i)) THEN SkipDigits(b, i) ELSE 0

\* the position after the number that starts at i, 0 when there is none:
\* the digits before the point end at w, the fraction ends at f
WholeEnd(b, d) == IF At(b, d) = 48 THEN d + 1 ELSE DigitsEnd(b, d)
FracEnd(b, w) == IF w = 0 \/ At(b, w) # 46 THEN w ELSE DigitsEnd(b, w + 1)
ExpEnd(b, f) ==
    IF f = 0 \/ At(b, f) \notin {69, 101} THEN f
    ELSE DigitsEnd(b, IF At(b, f + 1) \in {43, 45} THEN f + 2 ELSE f + 1)
NumberEnd(b, i) ==
    ExpEnd(b, FracEnd(b, WholeEnd(b, IF At(b, i) = 45 THEN i + 1 ELSE i)))

\* utf8.EncodeRune of a rune that is no surrogate
EncodeRune(r) ==
    IF r < 128 THEN <<r>>
    ELSE IF r < 2048 THEN <<192 + r \div 64, 128 + (r % 64)>>
    ELSE IF r < 65536
    THEN <<224 + r \div 4096, 128 + ((r \div 64) % 64), 128 + (r % 64)>>
    ELSE <<240 + r \div 262144, 128 + ((r \div 4096) % 64),
           128 + ((r \div 64) % 64), 128 + (r % 64)>>

IsCont(c) == c >= 128 /\ c <= 191

\* utf8.DecodeRune: the number of bytes of the rune that starts with the
\* bytes c, c1, c2, c3, 0 when they are no UTF-8 encoding of a rune
RuneLen(c, c1, c2, c3) ==
    IF c < 128 THEN 1
    ELSE IF c >= 194 /\ c <= 223 THEN IF IsCont(c1) THEN 2 ELSE 0
    ELSE IF c >= 224 /\ c <= 239
    THEN IF IsCont(c1) /\ IsCont(c2) /\ (c = 224 => c1 >= 160)
            /\ (c = 237 => c1 <= 159)
         THEN 3 ELSE 0
    ELSE IF c >= 240 /\ c <= 244
    THEN IF IsCont(c1) /\ IsCont(c2) /\ IsCont(c3)
            /\ (c = 240 => c1 >= 144) /\ (c = 244 => c1 <= 143)
         THEN 4 ELSE 0
    ELSE 0
RuneSize(b, i) == RuneLen(At(b, i), At(b, i + 1), At(b, i + 2), At(b, i + 3))

\* getu4: the number of the escape \uXXXX at position i, -1 when there is
\* none
getu4(b, i) ==
    IF At(b, i) = 92 /\ At(b, i + 1) = 117
       /\ \A j \in 2..5 : HexValue(At(b, i + j)) >= 0
    THEN 4096 * HexValue(b[i + 2]) + 256 * HexValue(b[i + 3])
         + 16 * HexValue(b[i + 4]) + HexValue(b[i + 5])
    ELSE -1

\* the byte an escape of one letter stands for
Escaped(c) ==
    CASE c = 98 -> 8 [] c = 102 -> 12 [] c = 110 -> 10 [] c = 114 -> 13
      [] c = 116 -> 9 [] OTHER -> c

\* the escape \uXXXX of number rr, followed by the escape of number rr1 (-1
\* when none follows): the bytes it stands for and the length n of what is
\* read.  Two escapes that are a surrogate pair are the one rune, a
\* surrogate alone is U+FFFD
EscapedRune(rr, rr1) ==
    [b |-> EncodeRune(
               IF rr < 55296 \/ rr > 57343 THEN rr
               ELSE IF rr < 56320 /\ rr1 >= 56320 /\ rr1 <= 57343
               THEN 65536 + (rr - 55296) * 1024 + (rr1 - 56320)
               ELSE ReplacementChar),
     n |-> IF rr >= 55296 /\ rr < 56320 /\ rr1 >= 56320 /\ rr1 <= 57343
           THEN 12 ELSE 6]

\* the rune of n bytes at position r; a byte that is not UTF-8 (n = 0) is
\* U+FFFD
PlainRune(s, r, n) ==
    [b |-> IF n = 0 THEN EncodeRune(ReplacementChar)
           ELSE SubSeq(s, r, r + n - 1),
     n |-> IF n = 0 THEN 1 ELSE n]

\* what stands at position r of the text of a string
UnquoteStep(s, r) ==
    IF s[r] # 92 THEN PlainRune(s, r, RuneSize(s, r))
    ELSE IF s[r + 1] # 117 THEN [b |-> <<Escaped(s[r + 1])>>, n |-> 2]
    ELSE EscapedRune(getu4(s, r), getu4(s, r + 6))

\* the bytes that end a run of bytes that stand for themselves: the
\* backslash and the bytes that are not ASCII
UnquoteStops == {92} \cup (128..255)

\* unquoteBytes: the bytes of the string whose text between the quotes is
\* s, from position r on; j is the position where the bytes from r on that
\* stand for themselves end
RECURSIVE unquoteBytes(_, _)
UnquoteFrom(s, r, j) ==
    IF j > Len(s) THEN SubSeq(s, r, Len(s))
    ELSE Only({SubSeq(s, r, j - 1) \o step.b \o unquoteBytes(s, j + step.n) :
               step \in {UnquoteStep(s, j)}})
unquoteBytes(s, r) == UnquoteFrom(s, r, Find(s, r, UnquoteStops))

NoValue == [ok |-> FALSE, next |-> 0, v |-> [t |-> "null"]]
Scanned(next, v) == [ok |-> TRUE, next |-> next, v |-> v]

IsLiteral(b, i, word) ==
    \A j \in 1..Len(word) : At(b, i + j - 1) = word[j]

\* the string whose opening quote is at i and that ends before e, and the
\* number from i to before e
StringToken(b, i, e) ==
    IF e = 0 THEN NoValue
    ELSE Scanned(e, [t |-> "string", raw |-> SubSeq(b, i + 1, e - 2),
                     s |-> unquoteBytes(SubSeq(b, i + 1, e - 2), 1)])
NumberToken(b, i, e) ==
    IF e = 0 THEN NoValue
    ELSE Scanned(e, [t |-> "number", text |-> SubSeq(b, i, e - 1)])

\* the scanner: the value that starts at position i, with depth arrays and
\* objects open around it
RECURSIVE ScanValue(_, _, _)
RECURSIVE ScanMembers(_, _, _, _)
RECURSIVE ScanElements(_, _, _, _)
RECURSIVE ScanMember(_, _, _, _)

ScanValue(b, i, depth) ==
    IF At(b, i) = 123
    THEN IF depth >= MaxNestingDepth THEN NoValue
         ELSE ScanMembers(b, SkipSpace(b, i + 1), depth + 1, <<>>)
    ELSE IF At(b, i) = 91
    THEN IF depth >= MaxNestingDepth THEN NoValue
         ELSE ScanElements(b, SkipSpace(b, i + 1), depth + 1, <<>>)
    ELSE IF At(b, i) = 34 THEN StringToken(b, i, StringEnd(b, i + 1))
    ELSE IF At(b, i) = 45 \/ IsDigit(At(b, i))
    THEN NumberToken(b, i, NumberEnd(b, i))
    ELSE IF IsLiteral(b, i, <<116, 114, 117, 101>>)
    THEN Scanned(i + 4, [t |-> "true"])
    ELSE IF IsLiteral(b, i, <<102, 97, 108, 115, 101>>)
    THEN Scanned(i + 5, [t |-> "false"])
    ELSE IF IsLiteral(b, i, <<110, 117, 108, 108>>)
    THEN Scanned(i + 4, [t |-> "null"])
    ELSE NoValue

\* the member of the key scanned, and after it a comma and the next
\* members, or the end of the object
ScanMember(b, key, depth, acc) ==
    IF ~key.ok \/ At(b, SkipSpace(b, key.next)) # 58 THEN NoValue
    ELSE Only({
        IF ~val.ok THEN NoValue
        ELSE IF At(b, SkipSpace(b, val.next)) = 44
        THEN ScanMembers(b, SkipSpace(b, SkipSpace(b, val.next) + 1), depth,
                         Append(acc, [key |-> key.v.s, val |-> val.v]))
        ELSE IF At(b, SkipSpace(b, val.next)) = 125
        THEN Scanned(SkipSpace(b, val.next) + 1,
                     [t |-> "object",
                      members |-> Append(acc, [key |-> key.v.s,
                                               val |-> val.v])])
        ELSE NoValue :
        val \in {ScanValue(b, SkipSpace(b, SkipSpace(b, key.next) + 1),
                           depth)}})

\* the members of an object from position i on, where the key of a member
\* starts or, when there is no member before it, the object ends
ScanMembers(b, i, depth, acc) ==
    IF acc = <<>> /\ At(b, i) = 125
    THEN Scanned(i + 1, [t |-> "object", members |-> <<>>])
    ELSE IF At(b, i) # 34 THEN NoValue
    ELSE ScanMember(b, StringToken(b, i, StringEnd(b, i + 1)), depth, acc)

\* the elements of an array from position i on, where an element starts
\* or, when there is no element before it, the array ends: an element, and
\* after it a comma and the next elements, or the end of the array
ScanElements(b, i, depth, acc) ==
    IF acc = <<>> /\ At(b, i) = 93
    THEN Scanned(i + 1, [t |-> "array", items |-> <<>>])
    ELSE Only({
        IF ~val.ok THEN NoValue
        ELSE IF At(b, SkipSpace(b, val.next)) = 44
        THEN ScanElements(b, SkipSpace(b, SkipSpace(b, val.next) + 1),
                          depth, Append(acc, val.v))
        ELSE IF At(b, SkipSpace(b, val.next)) = 93
        THEN Scanned(SkipSpace(b, val.next) + 1,
                     [t |-> "array", items |-> Append(acc, val.v)])
        ELSE NoValue :
        val \in {ScanValue(b, i, depth)}})

\* checkValid: the bytes are one JSON value with white space around it
checkValid(b) ==
    Only({[ok |-> val.ok /\ SkipSpace(b, val.next) = Len(b) + 1,
           v |-> val.v] :
          val \in {ScanValue(b, SkipSpace(b, 1), 0)}})

\* foldName: the name under which a key is looked up when no field has
\* exactly its name.  An ASCII letter becomes its capital; of the runes
\* above ASCII only U+017F (long s) and U+212A (Kelvin sign) fold to an
\* ASCII letter
RECURSIVE foldName(_, _)
foldName(s, i) ==
    IF i > Len(s) THEN <<>>
    ELSE IF s[i] >= 97 /\ s[i] <= 122
    THEN <<s[i] - 32>> \o foldName(s, i + 1)
    ELSE IF s[i] = 197 /\ At(s, i + 1) = 191
    THEN <<83>> \o foldName(s, i + 2)
    ELSE IF s[i] = 226 /\ At(s, i + 1) = 132 /\ At(s, i + 2) = 170
    THEN <<75>> \o foldName(s, i + 3)
    ELSE <<s[i]>> \o foldName(s, i + 1)

\* the names of the fields of core.Node and core.Link
FieldID == <<73, 68>>
FieldType == <<84, 121, 112, 101>>
FieldContent == <<67, 111, 110, 116, 101, 110, 116>>
FieldMeta == <<77, 101, 116, 97>>
FieldCreated == <<67, 114, 101, 97, 116, 101, 100>>
FieldModified == <<77, 111, 100, 105, 102, 105, 101, 100>>
FieldSource == <<83, 111, 117, 114, 99, 101>>
FieldTarget == <<84, 97, 114, 103, 101, 116>>
NodeFields ==
    <<FieldID, FieldType, FieldContent, FieldMeta, FieldCreated,
      FieldModified>>
LinkFields ==
    <<FieldSource, FieldTarget, FieldType, FieldMeta, FieldCreated,
      FieldModified>>

\* cachedTypeFields: the folded names of the fields of a struct are
\* computed once for its type
FoldedNodeFields ==
    [i \in 1..Len(NodeFields) |-> foldName(NodeFields[i], 1)]
FoldedLinkFields ==
    [i \in 1..Len(LinkFields) |-> foldName(LinkFields[i], 1)]
FoldedFields(fields) ==
    IF fields = NodeFields THEN FoldedNodeFields
    ELSE IF fields = LinkFields THEN FoldedLinkFields
    ELSE [i \in 1..Len(fields) |-> foldName(fields[i], 1)]

\* the field of the struct a key names: its position in fields, 0 for a key
\* that names none.  folded are the folded names of the fields
RECURSIVE FieldAt(_, _, _)
FieldAt(folded, key, i) ==
    IF i > Len(folded) THEN 0
    ELSE IF folded[i] = key THEN i
    ELSE FieldAt(folded, key, i + 1)
FieldOf(fields, name) ==
    IF \E i \in 1..Len(fields) : fields[i] = name
    THEN CHOOSE i \in 1..Len(fields) : fields[i] = name
    ELSE FieldAt(FoldedFields(fields), foldName(name, 1), 1)

\* base64.StdEncoding: the value of a character of the alphabet, -1 for
\* any other byte
Base64Value(c) ==
    IF c >= 65 /\ c <= 90 THEN c - 65
    ELSE IF c >= 97 /\ c <= 122 THEN c - 71
    ELSE IF c >= 48 /\ c <= 57 THEN c + 4
    ELSE IF c = 43 THEN 62
    ELSE IF c = 47 THEN 63
    ELSE -1

\* a quantum of four characters, c3 and c4 the last two and q1, q2, q3,
\* q4 the values of the four: the last quantum may end in one or two
\* padding characters
QuantumOK(q1, q2, q3, q4, c3, c4, last) ==
    /\ q1 >= 0 /\ q2 >= 0
    /\ \/ q3 >= 0 /\ q4 >= 0
       \/ last /\ q3 >= 0 /\ c4 = 61
       \/ last /\ c3 = 61 /\ c4 = 61
QuantumAt(s, i) ==
    QuantumOK(Base64Value(s[i]), Base64Value(s[i + 1]),
              Base64Value(s[i + 2]), Base64Value(s[i + 3]),
              s[i + 2], s[i + 3], i + 3 = Len(s))

\* the byte r (0, 1 or 2) of the quantum of the values q1, q2, q3, q4
QuantumByte(r, q1, q2, q3, q4) ==
    IF r = 0 THEN 4 * q1 + q2 \div 16
    ELSE IF r = 1 THEN 16 * (q2 % 16) + q3 \div 4
    ELSE 64 * (q3 % 4) + q4
ByteAt(s, i, r) ==
    QuantumByte(r, Base64Value(s[i]), Base64Value(s[i + 1]),
                Base64Value(At(s, i + 2)), Base64Value(At(s, i + 3)))

\* the number of padding characters at the end
Padding(s) ==
    IF Len(s) = 0 \/ s[Len(s)] # 61 THEN 0
    ELSE IF s[Len(s) - 1] # 61 THEN 1 ELSE 2

\* the bytes of the quantums of s
DecodeQuantums(s) ==
    IF Len(s) % 4 = 0
       /\ \A g \in 1..(Len(s) \div 4) : QuantumAt(s, 4 * g - 3)
    THEN [ok |-> TRUE,
          b |-> [m \in 1..(3 * (Len(s) \div 4) - Padding(s)) |->
                    ByteAt(s, 4 * ((m - 1) \div 3) + 1, (m - 1) % 3)]]
    ELSE [ok |-> FALSE, b |-> <<>>]

\* base64.StdEncoding.Decode: line feeds and carriage returns are skipped
\* wherever they stand
Base64Decode(s) ==
    DecodeQuantums(SelectSeq(s, LAMBDA c : c \notin {10, 13}))

\* time: the days of a month, and the number of the day of a date, counted
\* from 1970-01-01
isLeap(year) == year % 4 = 0 /\ (year % 100 # 0 \/ year % 400 = 0)
daysIn(month, year) ==
    IF month = 2 THEN (IF isLeap(year) THEN 29 ELSE 28)
    ELSE IF month \in {4, 6, 9, 11} THEN 30 ELSE 31
DaysBefore(month) == (153 * ((month + 9) % 12) + 2) \div 5
DayNumber(year, month, day) ==
    LET y == IF month <= 2 THEN year - 1 ELSE year
        yoe == y % 400
    IN  (y \div 400) * 146097 + yoe * 365 + yoe \div 4 - yoe \div 100
        + DaysBefore(month) + day - 1 - 719468

\* an instant: the day, the second of the day and the nanosecond of the
\* second, in UTC
Instant(day, sec, nsec) == [day |-> day, sec |-> sec, nsec |-> nsec]
\* the zero time.Time: 0001-01-01T00:00:00Z
ZeroTime == Instant(DayNumber(1, 1, 1), 0, 0)
\* Time.Equal and Time.Before
TimeEqual(a, b) == a = b
TimeBefore(a, b) ==
    \/ a.day < b.day
    \/ a.day = b.day /\ a.sec < b.sec
    \/ a.day = b.day /\ a.sec = b.sec /\ a.nsec < b.nsec

\* the number the digits at positions i..j of b spell, -1 when one of
\* them is no digit
RECURSIVE Digits(_, _, _)
Digits(b, i, j) ==
    IF j < i THEN 0
    ELSE IF ~IsDigit(At(b, j)) THEN -1
    ELSE Only({IF d < 0 THEN -1 ELSE 10 * d + (b[j] - 48) :
               d \in {Digits(b, i, j - 1)}})

\* parseNanoseconds: the nanoseconds the digits at positions i..j spell as
\* a fraction of a second; the digits after the ninth are dropped
RECURSIVE Pow10(_)
Pow10(n) == IF n = 0 THEN 1 ELSE 10 * Pow10(n - 1)
Nanoseconds(b, i, j) ==
    LET n == IF j - i + 1 > 9 THEN 9 ELSE j - i + 1
    IN  Digits(b, i, i + n - 1) * Pow10(9 - n)

\* time.Parse(time.RFC3339, s), which Time.UnmarshalJSON comes down to: the
\* year of four digits, the month, the day, the minute and the second of
\* two, the hour of one or two, a fraction after a period or a comma, and
\* the zone, Z or an offset of hours and minutes.  The hour ends at
\* position h and the zone starts at position z.
HourEnd(b) == IF IsDigit(At(b, 13)) THEN 13 ELSE 12
ZoneStart(b, f) ==
    IF At(b, f) \in {46, 44} /\ IsDigit(At(b, f + 1))
    THEN SkipDigits(b, f + 1) ELSE f

\* the numbers the text spells
TimeFields(b, h, z) ==
    [year |-> Digits(b, 1, 4), month |-> Digits(b, 6, 7),
     day |-> Digits(b, 9, 10), hour |-> Digits(b, 12, h),
     min |-> Digits(b, h + 2, h + 3), sec |-> Digits(b, h + 5, h + 6),
     nsec |-> IF z > h + 7 THEN Nanoseconds(b, h + 8, z - 1) ELSE 0,
     zh |-> Digits(b, z + 1, z + 2), zm |-> Digits(b, z + 4, z + 5)]

\* the text is a time
TimeOK(b, h, z, p) ==
    /\ p.year >= 0 /\ At(b, 5) = 45
    /\ p.month >= 1 /\ p.month <= 12 /\ At(b, 8) = 45
    /\ p.day >= 1 /\ p.day <= daysIn(p.month, p.year) /\ At(b, 11) = 84
    /\ p.hour >= 0 /\ p.hour < 24 /\ At(b, h + 1) = 58
    /\ p.min >= 0 /\ p.min < 60 /\ At(b, h + 4) = 58
    /\ p.sec >= 0 /\ p.sec < 60
    /\ \/ At(b, z) = 90 /\ Len(b) = z
       \/ /\ At(b, z) \in {43, 45} /\ At(b, z + 3) = 58
          /\ p.zh >= 0 /\ p.zh <= 24 /\ p.zm >= 0 /\ p.zm <= 60
          /\ Len(b) = z + 5

\* the seconds the zone is east of UTC
ZoneOffset(b, z, p) ==
    IF At(b, z) = 90 THEN 0
    ELSE IF At(b, z) = 45 THEN 0 - (p.zh * 60 + p.zm) * 60
    ELSE (p.zh * 60 + p.zm) * 60

\* the instant at seconds after the start of the day
InstantAt(day, at, nsec) == Instant(day + at \div 86400, at % 86400, nsec)

TimeFrom(b, h, z, p) ==
    IF TimeOK(b, h, z, p)
    THEN [ok |-> TRUE,
          t |-> InstantAt(DayNumber(p.year, p.month, p.day),
                          p.hour * 3600 + p.min * 60 + p.sec
                              - ZoneOffset(b, z, p),
                          p.nsec)]
    ELSE [ok |-> FALSE, t |-> ZeroTime]
ParseTimeAt(b, h, z) == TimeFrom(b, h, z, TimeFields(b, h, z))
ParseTimeFrom(b, h) == ParseTimeAt(b, h, ZoneStart(b, h + 7))
ParseTime(b) == ParseTimeFrom(b, HourEnd(b))

\* strconv.ParseFloat(s, 64) of a JSON number, the decimal the text
\* spells: the digits of the number without the zeros before and after
\* them, and the power of ten exp such that the number is 0.digits times
\* ten to the exp.  The digits of an exponent are added up as long as it is
\* below 10000.
RECURSIVE Exponent(_, _, _)
Exponent(b, i, e) ==
    IF i > Len(b) THEN e
    ELSE Exponent(b, i + 1, IF e < 10000 THEN 10 * e + (b[i] - 48) ELSE e)

RECURSIVE LeadingZeros(_, _)
LeadingZeros(d, i) ==
    IF i <= Len(d) /\ d[i] = 0 THEN LeadingZeros(d, i + 1) ELSE i - 1

RECURSIVE TrailingZeros(_, _)
TrailingZeros(d, n) ==
    IF n < Len(d) /\ d[Len(d) - n] = 0 THEN TrailingZeros(d, n + 1) ELSE n

Number(neg, digits, exp) ==
    [k |-> "num", neg |-> neg, digits |-> digits, exp |-> exp]

\* the digits of the mantissa: those from i to before j, and those after
\* the point up to before m
AllDigits(b, i, j, m) ==
    [n \in 1..(m - i - (IF m > j THEN 1 ELSE 0)) |->
        IF i + n - 1 < j THEN b[i + n - 1] - 48 ELSE b[i + n] - 48]

\* the exponent written from position m on
ExponentOf(b, m) ==
    IF m > Len(b) THEN 0
    ELSE IF At(b, m + 1) = 45 THEN 0 - Exponent(b, m + 2, 0)
    ELSE IF At(b, m + 1) = 43 THEN Exponent(b, m + 2, 0)
    ELSE Exponent(b, m + 1, 0)

\* the number of the digits all, of which lead are zeros before the others,
\* times ten to the exp
Trimmed(neg, all, lead, exp) ==
    IF lead = Len(all) THEN Number(neg, <<>>, 0)
    ELSE Number(neg, SubSeq(all, lead + 1, Len(all) - TrailingZeros(all, 0)),
                exp - lead)
Decimal(neg, all, exp) == Trimmed(neg, all, LeadingZeros(all, 1), exp)

\* the number whose digits start at i, with the point or the end at j and
\* the exponent or the end at m
ParseFloatAt(b, i, j, m) ==
    Decimal(i = 2, AllDigits(b, i, j, m), (j - i) + ExponentOf(b, m))
ParseFloatFrom(b, i, j) ==
    ParseFloatAt(b, i, j, IF At(b, j) = 46 THEN SkipDigits(b, j + 1) ELSE j)
ParseFloatSigned(b, i) == ParseFloatFrom(b, i, SkipDigits(b, i))

\* the digits a, read as a fraction, are less than the digits b
RECURSIVE DigitsLess(_, _, _)
DigitsLess(a, b, i) ==
    IF i > Len(b) THEN FALSE
    ELSE IF i > Len(a) THEN TRUE
    ELSE IF a[i] # b[i] THEN a[i] < b[i]
    ELSE DigitsLess(a, b, i + 1)

\* a decimal of at most 15 digits between the powers of ten where every
\* decimal is a normal float64: no two of them are the same float64, so
\* each is the shortest decimal of the float64 nearest to it
IsExact(n) ==
    n.digits = <<>>
    \/ (Len(n.digits) <= 15 /\ n.exp >= 0 - 306 /\ n.exp <= 308)

(***************************************************************************)
(* strconv, the decimal type: the digits d of a number that is not zero,   *)
(* with no zero at either end, and the place dp of the point, for 0.d      *)
(* times ten to the dp.  A natural number is the sequence of its digits,   *)
(* none for zero.                                                          *)
(***************************************************************************)
Dec(d, dp) == [d |-> d, dp |-> dp]

\* the digits without the zeros at their end
Trim(d) == SubSeq(d, 1, Len(d) - TrailingZeros(d, 0))

\* the half of a decimal: a digit of it is the half of the digit at its
\* place and five more when the digit before that is odd
Halve(x) ==
    LET n == Len(x.d)
        h == [i \in 1..(n + 1) |->
                 (IF i <= n THEN (x.d[i] \div 2) ELSE 0)
                     + (IF i > 1 /\ x.d[i - 1] % 2 = 1 THEN 5 ELSE 0)]
        lead == IF h[1] = 0 THEN 1 ELSE 0
        trail == IF h[n + 1] = 0 THEN 1 ELSE 0
    IN  Dec(SubSeq(h, 1 + lead, n + 1 - trail), x.dp - lead)

\* the double of a decimal: a digit of it is the last digit of the double
\* of the digit at its place and one more when the digit after that is five
\* or more
Double(x) ==
    LET n == Len(x.d)
        r == [i \in 1..(n + 1) |->
                 ((2 * (IF i = 1 THEN 0 ELSE x.d[i - 1])) % 10)
                     + (IF i <= n /\ x.d[i] >= 5 THEN 1 ELSE 0)]
        lead == IF r[1] = 0 THEN 1 ELSE 0
        trail == IF r[n + 1] = 0 THEN 1 ELSE 0
    IN  Dec(SubSeq(r, 1 + lead, n + 1 - trail), x.dp + 1 - lead)

\* rightShift and leftShift: the decimal divided and multiplied by 2^k
RECURSIVE rightShift(_, _)
rightShift(x, k) ==
    IF k = 0 THEN x
    ELSE IF k = 1 THEN Halve(x)
    ELSE Only({rightShift(y, k - k \div 2) : y \in {rightShift(x, k \div 2)}})

RECURSIVE leftShift(_, _)
leftShift(x, k) ==
    IF k = 0 THEN x
    ELSE IF k = 1 THEN Double(x)
    ELSE Only({leftShift(y, k - k \div 2) : y \in {leftShift(x, k \div 2)}})

\* decimal.Shift
Shift(x, k) == IF k < 0 THEN rightShift(x, 0 - k) ELSE leftShift(x, k)

\* n + 1 of a natural number
Inc(m) ==
    LET nines == CHOOSE t \in 0..Len(m) :
                     /\ \A i \in (Len(m) - t + 1)..Len(m) : m[i] = 9
                     /\ t = Len(m) \/ m[Len(m) - t] # 9
    IN  IF nines = Len(m) THEN <<1>> \o [i \in 1..Len(m) |-> 0]
        ELSE [i \in 1..Len(m) |->
                 IF i < Len(m) - nines THEN m[i]
                 ELSE IF i = Len(m) - nines THEN m[i] + 1
                 ELSE 0]

\* n - 1 of a natural number that is not zero
Dec1(m) ==
    LET zeros == TrailingZeros(m, 0)
        r == [i \in 1..Len(m) |->
                 IF i < Len(m) - zeros THEN m[i]
                 ELSE IF i = Len(m) - zeros THEN m[i] - 1
                 ELSE 9]
    IN  IF r[1] = 0 THEN Tail(r) ELSE r

\* 2 * n of a natural number
Twice(m) ==
    LET r == [i \in 1..(Len(m) + 1) |->
                 ((2 * (IF i = 1 THEN 0 ELSE m[i - 1])) % 10)
                     + (IF i <= Len(m) /\ m[i] >= 5 THEN 1 ELSE 0)]
    IN  IF m = <<>> THEN <<>> ELSE IF r[1] = 0 THEN Tail(r) ELSE r

\* a < b of two natural numbers
NatLess(a, b) ==
    Len(a) < Len(b) \/ (Len(a) = Len(b) /\ DigitsLess(a, b, 1))

\* 2^52 and 2^53, the least mantissa of a normal float64 and the first
\* number above the greatest
Two52 == <<4, 5, 0, 3, 5, 9, 9, 6, 2, 7, 3, 7, 0, 4, 9, 6>>
Two53 == <<9, 0, 0, 7, 1, 9, 9, 2, 5, 4, 7, 4, 0, 9, 9, 2>>

\* shouldRoundUp: the decimal cut after nd digits is rounded up; a half is
\* rounded to the even digit
shouldRoundUp(x, nd) ==
    IF nd < 0 \/ nd >= Len(x.d) THEN FALSE
    ELSE IF x.d[nd + 1] = 5 /\ nd + 1 = Len(x.d)
    THEN nd > 0 /\ x.d[nd] % 2 = 1
    ELSE x.d[nd + 1] >= 5

\* decimal.RoundedInteger: the integer nearest to a decimal
RoundedInteger(x) ==
    LET n == [i \in 1..(IF x.dp > 0 THEN x.dp ELSE 0) |->
                 IF i <= Len(x.d) THEN x.d[i] ELSE 0]
    IN  IF shouldRoundUp(x, x.dp) THEN Inc(n) ELSE n

\* decimal.RoundDown, RoundUp and Round: the decimal cut to nd digits
RoundDown(x, nd) ==
    IF nd < 0 \/ nd >= Len(x.d) THEN x
    ELSE IF Trim(SubSeq(x.d, 1, nd)) = <<>> THEN Dec(<<>>, 0)
    ELSE Dec(Trim(SubSeq(x.d, 1, nd)), x.dp)

RoundUp(x, nd) ==
    IF nd < 0 \/ nd >= Len(x.d) THEN x
    ELSE IF \A i \in 1..nd : x.d[i] = 9 THEN Dec(<<1>>, x.dp + 1)
    ELSE LET p == CHOOSE i \in 1..nd :
                      x.d[i] < 9 /\ \A j \in (i + 1)..nd : x.d[j] = 9
         IN  Dec(Append(SubSeq(x.d, 1, p - 1), x.d[p] + 1), x.dp)

Round(x, nd) ==
    IF shouldRoundUp(x, nd) THEN RoundUp(x, nd) ELSE RoundDown(x, nd)

\* powtab: the power of two the scaling shifts by, for a decimal whose point
\* is dp places from its first digit
ShiftCount(dp) ==
    IF dp >= 9 THEN 27 ELSE <<1, 3, 6, 9, 13, 16, 19, 23, 26>>[dp + 1]

\* the two loops of floatBits that bring the decimal into the range from
\* 0.5 to 1: x is the decimal times 2^exp
RECURSIVE ScaleDown(_, _)
ScaleDown(x, exp) ==
    IF x.dp > 0
    THEN Only({ScaleDown(y, exp + ShiftCount(x.dp)) :
               y \in {rightShift(x, ShiftCount(x.dp))}})
    ELSE [x |-> x, exp |-> exp]

RECURSIVE ScaleUp(_, _)
ScaleUp(x, exp) ==
    IF x.dp < 0 \/ (x.dp = 0 /\ x.d[1] < 5)
    THEN Only({ScaleUp(y, exp - ShiftCount(0 - x.dp)) :
               y \in {leftShift(x, ShiftCount(0 - x.dp))}})
    ELSE [x |-> x, exp |-> exp]

\* a float64: the mantissa mant, a natural number below 2^53, and the
\* exponent exp of its highest bit, for mant times 2^(exp - 52).  The
\* exponent of a float64 that is not normal, mant below 2^52, is -1023 and
\* stands for -1022.  ovf is TRUE for a number too large for a float64
Bits(mant, exp) == [ovf |-> FALSE, mant |-> mant, exp |-> exp]
Overflow == [ovf |-> TRUE, mant |-> <<>>, exp |-> 1024]

\* the end of floatBits: a mantissa that was rounded up to 2^53 is halved,
\* and one below 2^52 is not normal
PackBits(mant, exp) ==
    IF mant = Two53
    THEN (IF exp + 1 >= 1024 THEN Overflow ELSE Bits(Two52, exp + 1))
    ELSE IF NatLess(mant, Two52) THEN Bits(mant, 0 - 1023)
    ELSE Bits(mant, exp)

\* floatBits from the decimal x in the range from 0.5 to 1 on: the number
\* is x times 2^(exp + 1).  An exponent below -1022 is moved up to it, and
\* the 53 bits of the mantissa are the integer nearest to the decimal
\* shifted by them
RoundBits(x, exp) ==
    IF exp >= 1024 THEN Overflow
    ELSE IF exp < 0 - 1022
    THEN Only({PackBits(RoundedInteger(y), 0 - 1022) :
               y \in {Shift(Shift(x, exp + 1022), 53)}})
    ELSE Only({PackBits(RoundedInteger(y), exp) : y \in {Shift(x, 53)}})

\* (*decimal).floatBits: the float64 nearest to a decimal that is not zero
floatBits(x) ==
    IF x.dp > 310 THEN Overflow
    ELSE IF x.dp < 0 - 330 THEN Bits(<<>>, 0 - 1023)
    ELSE Only({RoundBits(s.x, s.exp - 1) :
               s \in {Only({ScaleUp(t.x, t.exp) : t \in {ScaleDown(x, 0)}})}})

\* the decimal of the natural number mant times 2^k: Assign, then Shift
DecimalOf(mant, k) == Shift(Dec(Trim(mant), Len(mant)), k)

\* the digit at the place i of a decimal, counted from 0: 0 where it has
\* none
DigitAt(x, i) == IF i >= 0 /\ i < Len(x.d) THEN x.d[i + 1] ELSE 0

\* roundShortest, the walk along the digits of d, of lower and of upper
\* from the place ui of upper on: d is cut at the first place where the cut
\* rounded down or up is between lower and upper.  delta is 0 while the
\* digits of d and upper are the same, 1 after a difference of one that only
\* nines of d and zeros of upper followed, 2 after any greater
UpperDelta(delta, m, u) ==
    IF delta = 0 /\ m + 1 < u THEN 2
    ELSE IF delta = 0 /\ m # u THEN 1
    ELSE IF delta = 1 /\ (m # 9 \/ u # 0) THEN 2
    ELSE delta

RECURSIVE ShortestFrom(_, _, _, _, _, _)
ShortestAt(d, lower, upper, inclusive, ui, mi, li, delta) ==
    LET okdown == \/ DigitAt(lower, li) # DigitAt(d, mi)
                  \/ inclusive /\ li + 1 = Len(lower.d)
        okup == /\ delta > 0
                /\ inclusive \/ delta > 1 \/ ui + 1 < Len(upper.d)
    IN  IF okdown /\ okup THEN Round(d, mi + 1)
        ELSE IF okdown THEN RoundDown(d, mi + 1)
        ELSE IF okup THEN RoundUp(d, mi + 1)
        ELSE ShortestFrom(d, lower, upper, inclusive, ui + 1, delta)

ShortestFrom(d, lower, upper, inclusive, ui, delta) ==
    IF ui - upper.dp + d.dp >= Len(d.d) THEN d
    ELSE ShortestAt(d, lower, upper, inclusive, ui, ui - upper.dp + d.dp,
                    ui - upper.dp + lower.dp,
                    UpperDelta(delta, DigitAt(d, ui - upper.dp + d.dp),
                               DigitAt(upper, ui)))

\* the half way from a float64 to the next one below it: the mantissa and
\* the power of two.  Below the least mantissa of a normal float64 the
\* next one is half as far, but for the least exponent
LowerOf(mant, exp) ==
    IF NatLess(Two52, mant) \/ exp = 0 - 1022
    THEN DecimalOf(Inc(Twice(Dec1(mant))), exp - 53)
    ELSE DecimalOf(Inc(Twice(Dec1(Twice(mant)))), exp - 54)

\* roundShortest: the shortest decimal that is nearer to the float64 of the
\* mantissa mant (not zero) and the exponent exp than to any other float64,
\* and of those of its length the nearest.  d is the decimal of the float64;
\* it is the shortest when the next shorter decimal is further away than
\* the next float64
roundShortest(d, mant, exp) ==
    IF exp > 0 - 1022 /\ 332 * (d.dp - Len(d.d)) >= 100 * (exp - 52) THEN d
    ELSE Only({ShortestFrom(d, lower, upper, mant[Len(mant)] % 2 = 0, 0, 0) :
               lower \in {LowerOf(mant, exp)},
               upper \in {DecimalOf(Inc(Twice(mant)), exp - 53)}})

\* strconv.FormatFloat(f, fmt, -1, 64), the digits: those of the shortest
\* decimal of a float64 that is not zero
ShortestDecimal(f) ==
    Only({roundShortest(DecimalOf(f.mant, e - 52), f.mant, e) :
          e \in {IF f.exp = 0 - 1023 THEN 0 - 1022 ELSE f.exp}})

\* a number is a float64, kept as its sign and its shortest decimal: the
\* digits, none for zero, and the power of ten exp, for 0.digits times ten
\* to the exp.  The float64 nearest to the decimal n, ok FALSE when n is
\* out of the range of a float64: convertNumber then returns nil
Float64(n) ==
    IF IsExact(n) THEN [ok |-> TRUE, v |-> n]
    ELSE Only({
        IF f.ovf THEN [ok |-> FALSE, v |-> [k |-> "nil"]]
        ELSE IF f.mant = <<>> THEN [ok |-> TRUE, v |-> Number(n.neg, <<>>, 0)]
        ELSE Only({[ok |-> TRUE, v |-> Number(n.neg, s.d, s.dp)] :
                   s \in {ShortestDecimal(f)}}) :
        f \in {floatBits(Dec(n.digits, n.exp))}})

\* strconv.ParseFloat(s, 64) of a JSON number: the float64 nearest to the
\* decimal the text spells, and ok FALSE for the error "value out of range"
ParseFloat(b) ==
    Only({Float64(n) :
          n \in {ParseFloatSigned(b, IF At(b, 1) = 45 THEN 2 ELSE 1)}})

\* a < b of two numbers that are not zero and have the same sign, by size
SmallerSize(a, b) ==
    a.exp < b.exp \/ (a.exp = b.exp /\ DigitsLess(a.digits, b.digits, 1))

\* a < b of two float64: the order of their shortest decimals
NumLess(a, b) ==
    IF a.digits = <<>> THEN b.digits # <<>> /\ ~b.neg
    ELSE IF b.digits = <<>> THEN a.neg
    ELSE IF a.neg # b.neg THEN a.neg
    ELSE IF a.neg THEN SmallerSize(b, a)
    ELSE SmallerSize(a, b)

\* the value stored in an interface{}.  ok is FALSE when a number in it is
\* out of the range of a float64
RECURSIVE valueInterface(_)
RECURSIVE objectInterface(_, _, _)
RECURSIVE arrayInterface(_, _)

valueInterface(v) ==
    CASE v.t = "null" -> [ok |-> TRUE, v |-> [k |-> "nil"]]
      [] v.t = "true" -> [ok |-> TRUE, v |-> [k |-> "bool", v |-> TRUE]]
      [] v.t = "false" -> [ok |-> TRUE, v |-> [k |-> "bool", v |-> FALSE]]
      [] v.t = "string" -> [ok |-> TRUE, v |-> Bin(v.s)]
      [] v.t = "text" -> [ok |-> TRUE, v |-> v.of]
      [] v.t = "number" -> ParseFloat(v.text)
      [] v.t = "array" ->
            Only({[ok |-> r.ok, v |-> [k |-> "arr", v |-> r.v]] :
                  r \in {arrayInterface(v.items, 1)}})
      [] v.t = "object" ->
            Only({[ok |-> r.ok, v |-> [k |-> "obj", v |-> r.v]] :
                  r \in {objectInterface(v.members, 1, NoMeta)}})

\* the members from the i-th on, stored in the map m one after the other:
\* the last member of a key is the one that stays
objectInterface(members, i, m) ==
    IF i > Len(members) THEN [ok |-> TRUE, v |-> m]
    ELSE Only({
        Only({[ok |-> e.ok /\ rest.ok, v |-> rest.v] :
              rest \in {objectInterface(
                            members, i + 1,
                            Assign(m, Bin(members[i].key), e.v))}}) :
        e \in {valueInterface(members[i].val)}})

arrayInterface(items, i) ==
    IF i > Len(items) THEN [ok |-> TRUE, v |-> <<>>]
    ELSE Only({
        Only({[ok |-> e.ok /\ rest.ok, v |-> <<e.v>> \o rest.v] :
              rest \in {arrayInterface(items, i + 1)}}) :
        e \in {valueInterface(items[i])}})

\* what a field holds after a value is stored in it, and the array behind
\* the slice of Content.  err is TRUE when the value is not one the type of
\* the field takes.
Decoded(val, back) == [err |-> FALSE, val |-> val, back |-> back]
Mismatch(cur, back) == [err |-> TRUE, val |-> cur, back |-> back]

\* a string field: a string, or null, which leaves the field as it is
StoreString(cur, back, v) ==
    CASE v.t = "string" -> Decoded(Bin(v.s), back)
      [] v.t = "text" -> Decoded(v.of, back)
      [] v.t = "null" -> Decoded(cur, back)
      [] OTHER -> Mismatch(cur, back)

\* strconv.ParseUint of a JSON number into a uint8: digits only, no more
\* than 255; -1 for any other number
ParseUint8(text) ==
    IF Len(text) <= 3 /\ Digits(text, 1, Len(text)) <= 255
    THEN Digits(text, 1, Len(text))
    ELSE -1

\* the []byte field Content.  A string is base64, decoded into a new array.
\* An array of numbers is the bytes themselves, stored one after the other
\* in the array the slice has, which grows as they need: a null in it
\* leaves the byte the array has at its place, that of the last array
\* stored there that was as long, 0 where there was none.  An array of no
\* element is a new slice of no byte, as the string "" is, and null makes
\* the slice nil.
RECURSIVE StoreByteItems(_, _, _)

\* the byte of the element it, the i-th: -1 when it is no byte
ByteItem(back, it, i) ==
    IF it.t = "number" THEN ParseUint8(it.text)
    ELSE IF it.t = "null" THEN (IF i <= Len(back) THEN back[i] ELSE 0)
    ELSE -1

StoreByteItems(back, items, i) ==
    IF i > Len(items) THEN [err |-> FALSE, val |-> <<>>]
    ELSE Only({[err |-> n < 0 \/ rest.err,
                val |-> <<IF n < 0 THEN 0 ELSE n>> \o rest.val] :
               n \in {ByteItem(back, items[i], i)},
               rest \in {StoreByteItems(back, items, i + 1)}})

\* the array behind the slice after the bytes b are stored at its start
StoredOver(back, b) ==
    IF Len(b) = 0 THEN <<>> ELSE b \o SubSeq(back, Len(b) + 1, Len(back))

\* a "base64" token is the whole of a Content the encoder wrote, and no
\* array follows it in the text
StoreBytes(cur, back, v) ==
    CASE v.t = "string" ->
            Only({IF d.ok THEN Decoded(Slice(d.b), d.b)
                  ELSE Mismatch(cur, back) :
                  d \in {Base64Decode(v.s)}})
      [] v.t = "base64" -> Decoded(v.of, <<>>)
      [] v.t = "null" -> Decoded(NoBytes, <<>>)
      [] v.t = "array" ->
            Only({[err |-> r.err, val |-> Slice(r.val),
                   back |-> StoredOver(back, r.val)] :
                  r \in {StoreByteItems(back, v.items, 1)}})
      [] OTHER -> Mismatch(cur, back)

\* the map[string]interface{} field Meta: the members of an object are put
\* into the map the field has, a new one when it is nil; null makes the
\* map nil
StoreMap(cur, back, v) ==
    CASE v.t = "object" ->
            Only({[err |-> ~r.ok, val |-> r.v, back |-> back] :
                  r \in {objectInterface(v.members, 1,
                                         IF cur = NilMeta THEN NoMeta
                                         ELSE cur)}})
      [] v.t = "null" -> Decoded(NilMeta, back)
      [] OTHER -> Mismatch(cur, back)

\* a time.Time field, Time.UnmarshalJSON: null leaves the field as it is;
\* a string is parsed as it stands between the quotes, escapes included
StoreTime(cur, back, v) ==
    CASE v.t = "string" ->
            Only({IF p.ok THEN Decoded(p.t, back) ELSE Mismatch(cur, back) :
                  p \in {ParseTime(v.raw)}})
      [] v.t = "null" -> Decoded(cur, back)
      [] OTHER -> Mismatch(cur, back)

\* the value v stored in the field of name field
StoreField(field, cur, back, v) ==
    IF field \in {FieldContent} THEN StoreBytes(cur, back, v)
    ELSE IF field \in {FieldMeta} THEN StoreMap(cur, back, v)
    ELSE IF field \in {FieldCreated, FieldModified}
    THEN StoreTime(cur, back, v)
    ELSE StoreString(cur, back, v)

\* the zero value of a field
ZeroField(field) ==
    IF field \in {FieldMeta} THEN NilMeta
    ELSE IF field \in {FieldCreated, FieldModified} THEN ZeroTime
    ELSE NoBytes

\* decoder.object on a struct: the members are stored one after the other
\* in the field each key names, a key that names no field is passed over.
\* s is the sequence of the values of the fields, back the array behind the
\* slice of Content.
RECURSIVE StoreMembers(_, _, _, _, _)
RECURSIVE StoreMember(_, _, _, _, _, _)

\* the i-th member, whose key names the field f
StoreMember(fields, members, i, s, back, f) ==
    IF f = 0 THEN StoreMembers(fields, members, i + 1, s, back)
    ELSE Only({
        IF r.err THEN [err |-> TRUE, s |-> s]
        ELSE StoreMembers(fields, members, i + 1, [s EXCEPT ![f] = r.val],
                          r.back) :
        r \in {StoreField(fields[f], s[f], back, members[i].val)}})

StoreMembers(fields, members, i, s, back) ==
    IF i > Len(members) THEN [err |-> FALSE, s |-> s]
    ELSE StoreMember(fields, members, i, s, back,
                     FieldOf(fields, members[i].key))

\* the zero value of the struct
ZeroStruct(fields) == [i \in 1..Len(fields) |-> ZeroField(fields[i])]

\* the value p of the text, stored in a struct of the fields given that
\* has its zero value: null leaves it so, an object is stored field by
\* field, and any other value, and bytes that are no JSON text, are an error
StoreValue(fields, p) ==
    IF ~p.ok \/ p.v.t \notin {"null", "object"}
    THEN [err |-> TRUE, s |-> ZeroStruct(fields)]
    ELSE IF p.v.t = "null" THEN [err |-> FALSE, s |-> ZeroStruct(fields)]
    ELSE StoreMembers(fields, p.v.members, 1, ZeroStruct(fields), <<>>)


(***************************************************************************)
(* encoding/json, as json.Marshal(node), json.Marshal(link) and            *)
(* json.Marshal(meta) use it.  The text written is kept as the tree of its *)
(* tokens, the one the scanner reads from its bytes, with the text of each *)
(* key beside the key it spells (raw).  The encoder writes no white space, *)
(* so two texts are the same bytes when their trees are the same.          *)
(***************************************************************************)
\* the bytes the encoder writes as they are: ASCII apart from the control
\* characters, the quote, the backslash and the characters HTML escapes
PlainBytes == (32..127) \ {34, 92, 60, 62, 38}

\* \u00XX of a byte
EscapeByte(c) == <<92, 117, 48, 48, HexDigit(c \div 16), HexDigit(c % 16)>>

\* what the encoder writes for the rune of n bytes at position i: a byte
\* that is no UTF-8 (n = 0) is written as the escape of U+FFFD, and U+2028
\* and U+2029 are written as their escapes
EscapeRune(b, i, n) ==
    IF n = 0 THEN <<92, 117, 102, 102, 102, 100>>
    ELSE IF n = 3 /\ b[i] = 226 /\ b[i + 1] = 128 /\ b[i + 2] \in {168, 169}
    THEN <<92, 117, 50, 48, 50, HexDigit(b[i + 2] - 160)>>
    ELSE IF n > 1 \/ b[i] \in PlainBytes THEN SubSeq(b, i, i + n - 1)
    ELSE CASE b[i] \in {34, 92} -> <<92, b[i]>>
           [] b[i] = 8 -> <<92, 98>>
           [] b[i] = 12 -> <<92, 102>>
           [] b[i] = 10 -> <<92, 110>>
           [] b[i] = 13 -> <<92, 114>>
           [] b[i] = 9 -> <<92, 116>>
           [] OTHER -> EscapeByte(b[i])

RECURSIVE EscapeFrom(_, _)
EscapeFrom(b, i) ==
    IF i > Len(b) THEN <<>>
    ELSE Only({EscapeRune(b, i, n)
                   \o EscapeFrom(b, i + (IF n = 0 THEN 1 ELSE n)) :
               n \in {RuneSize(b, i)}})

\* appendString: the text of a string between its quotes
appendString(b) ==
    IF \A i \in 1..Len(b) : b[i] \in PlainBytes THEN b ELSE EscapeFrom(b, 1)

\* the token of a string whose text between the quotes is raw
Quoted(raw) == [t |-> "string", raw |-> raw, s |-> unquoteBytes(raw, 1)]

\* the token of a string: the bytes of a hash are never written as one
StringOf(s) ==
    CASE s.k = "bin" -> Quoted(appendString(s.b))
      [] s.k \in {"hex", "hexof", "pfxof", "tail"} -> [t |-> "text", of |-> s]

\* the decimal digits of a natural number
RECURSIVE DecimalDigits(_)
DecimalDigits(v) ==
    IF v < 10 THEN <<48 + v>>
    ELSE Append(DecimalDigits(v \div 10), 48 + (v % 10))

\* the number v in decimal digits, n of them
Padded(v, n) == [i \in 1..n |-> 48 + ((v \div Pow10(n - i)) % 10)]

Zeros(n) == [i \in 1..n |-> 48]

\* strconv.AppendFloat(b, f, 'f', -1, 64) and (b, f, 'e', -1, 64) of a
\* number that is not zero, d the characters of the digits of its shortest
\* decimal
FormatF(d, exp) ==
    IF exp <= 0 THEN <<48, 46>> \o Zeros(0 - exp) \o d
    ELSE IF exp >= Len(d) THEN d \o Zeros(exp - Len(d))
    ELSE SubSeq(d, 1, exp) \o <<46>> \o SubSeq(d, exp + 1, Len(d))
\* the exponent has two digits or more, and the encoder takes the zero out
\* of e-0N
FormatE(d, exp) ==
    <<d[1]>> \o (IF Len(d) > 1 THEN <<46>> \o Tail(d) ELSE <<>>)
        \o (IF exp < 1 THEN <<101, 45>> \o DecimalDigits(1 - exp)
            ELSE <<101, 43>> \o DecimalDigits(exp - 1))

\* floatEncoder: the format is 'e' below 1e-6 and from 1e21 on
FormatFloat(n) ==
    (IF n.neg THEN <<45>> ELSE <<>>)
        \o (IF n.digits = <<>> THEN <<48>>
            ELSE IF n.exp <= 0 - 6 \/ n.exp >= 22
            THEN FormatE([i \in 1..Len(n.digits) |-> 48 + n.digits[i]],
                         n.exp)
            ELSE FormatF([i \in 1..Len(n.digits) |-> 48 + n.digits[i]],
                         n.exp))

\* the date of a day number: the inverse of DayNumber
CivilFrom(doe, yoe, era) ==
    LET doy == doe - (365 * yoe + yoe \div 4 - yoe \div 100)
        mp == (5 * doy + 2) \div 153
        month == IF mp < 10 THEN mp + 3 ELSE mp - 9
    IN  [year |-> yoe + era * 400 + (IF month <= 2 THEN 1 ELSE 0),
         month |-> month, day |-> doy - (153 * mp + 2) \div 5 + 1]
DateOfEra(doe, era) ==
    CivilFrom(doe,
              (doe - doe \div 1460 + doe \div 36524 - doe \div 146096) \div 365,
              era)
DateOf(day) ==
    DateOfEra((day + 719468) % 146097, (day + 719468) \div 146097)

\* the fraction of a second of Time.Format(time.RFC3339Nano): the nine
\* digits of the nanoseconds without the zeros at their end, none for 0
Fraction(nsec) ==
    IF nsec = 0 THEN <<>>
    ELSE <<46>> \o SubSeq(Padded(nsec, 9), 1,
                         9 - TrailingZeros([i \in 1..9 |->
                                               Padded(nsec, 9)[i] - 48], 0))

\* Time.MarshalJSON of an instant in UTC of a year of four digits
FormatDate(d) ==
    Padded(d.year, 4) \o <<45>> \o Padded(d.month, 2) \o <<45>>
        \o Padded(d.day, 2)
FormatTime(t) ==
    FormatDate(DateOf(t.day)) \o <<84>> \o Padded(t.sec \div 3600, 2)
        \o <<58>> \o Padded((t.sec \div 60) % 60, 2) \o <<58>>
        \o Padded(t.sec % 60, 2) \o Fraction(t.nsec) \o <<90>>
TimeToken(t) ==
    Only({[t |-> "string", raw |-> b, s |-> b] : b \in {FormatTime(t)}})

\* base64.StdEncoding: the character of a value
Base64Char(v) ==
    IF v < 26 THEN 65 + v
    ELSE IF v < 52 THEN 71 + v
    ELSE IF v < 62 THEN v - 4
    ELSE IF v = 62 THEN 43
    ELSE 47

\* the character r (0 to 3) of the quantum of the bytes b0, b1, b2, of which
\* have are there
QuantumChar(r, b0, b1, b2, have) ==
    IF r > have THEN 61
    ELSE Base64Char(CASE r = 0 -> b0 \div 4
                      [] r = 1 -> 16 * (b0 % 4) + b1 \div 16
                      [] r = 2 -> 4 * (b1 % 16) + b2 \div 64
                      [] r = 3 -> b2 % 64)

\* base64.StdEncoding.EncodeToString
Base64Encode(b) ==
    [m \in 1..(4 * ((Len(b) + 2) \div 3)) |->
        QuantumChar((m - 1) % 4,
                    b[3 * ((m - 1) \div 4) + 1],
                    IF 3 * ((m - 1) \div 4) + 2 <= Len(b)
                    THEN b[3 * ((m - 1) \div 4) + 2] ELSE 0,
                    IF 3 * ((m - 1) \div 4) + 3 <= Len(b)
                    THEN b[3 * ((m - 1) \div 4) + 3] ELSE 0,
                    Len(b) - 3 * ((m - 1) \div 4))]

\* the token of a []byte: null for the nil slice, the base64 of the bytes
\* for any other, "" for the slice of no byte that is not nil
BytesToken(p) ==
    IF p = NoBytes THEN [t |-> "null"]
    ELSE IF p.k = "bin"
    THEN Only({[t |-> "string", raw |-> c, s |-> c] :
               c \in {Base64Encode(p.b)}})
    ELSE [t |-> "base64", of |-> p]

\* the order of the bytes of two strings
BytesLess(a, b) ==
    \E i \in 1..Len(b) :
        /\ \A j \in 1..(i - 1) : j <= Len(a) /\ a[j] = b[j]
        /\ i > Len(a) \/ a[i] < b[i]

\* the keys of a map in the order the encoder writes them: sorted by their
\* bytes
RECURSIVE SortedKeys(_)
SortedKeys(S) ==
    IF S = {} THEN <<>>
    ELSE Only({<<x>> \o SortedKeys(S \ {x}) :
               x \in {CHOOSE y \in S :
                          \A z \in S \ {y} : BytesLess(y.b, z.b)}})

\* the token of the value of an interface{}, of a map and of a []string
RECURSIVE ValueToken(_)
RECURSIVE MapToken(_)

\* a member of an object: the key is the string its text spells
Member(raw, val) == [key |-> unquoteBytes(raw, 1), raw |-> raw, val |-> val]

MembersOf(m, keys) ==
    [i \in 1..Len(keys) |->
        Member(appendString(keys[i].b), ValueToken(m[keys[i]]))]

MapToken(m) ==
    [t |-> "object", members |-> MembersOf(m, SortedKeys(DOMAIN m))]

ValueToken(v) ==
    CASE v.k = "nil" -> [t |-> "null"]
      [] v.k = "bool" -> [t |-> IF v.v THEN "true" ELSE "false"]
      [] v.k = "num" -> [t |-> "number", text |-> FormatFloat(v)]
      [] v.k = "arr" ->
            [t |-> "array",
             items |-> [i \in 1..Len(v.v) |-> ValueToken(v.v[i])]]
      [] v.k = "obj" -> MapToken(v.v)
      [] OTHER -> StringOf(v)

\* the token of a map[string]interface{} field: null for the nil map, {}
\* for a map of no key that is not nil
MetaToken(m) == IF m = NilMeta THEN [t |-> "null"] ELSE MapToken(m)

\* the token of a struct: its fields in the order of their declaration
StructToken(fields, vals) ==
    [t |-> "object",
     members |-> [i \in 1..Len(fields) |->
                     [key |-> fields[i], raw |-> fields[i], val |-> vals[i]]]]

\* len(data): the bytes of the text of a token
RECURSIVE TextLen(_)
RECURSIVE ItemsLen(_, _)
RECURSIVE MembersLen(_, _)

TextLen(v) ==
    CASE v.t \in {"null", "true"} -> 4
      [] v.t = "false" -> 5
      [] v.t = "number" -> Len(v.text)
      [] v.t = "string" -> 2 + Len(v.raw)
      [] v.t = "text" -> 2 + StrLen(v.of)
      [] v.t = "base64" -> 2 + 4 * ((ByteLen(v.of) + 2) \div 3)
      [] v.t = "array" -> 2 + ItemsLen(v.items, 1)
      [] v.t = "object" -> 2 + MembersLen(v.members, 1)

\* the elements from the i-th on, with the commas between them
ItemsLen(items, i) ==
    IF i > Len(items) THEN 0
    ELSE TextLen(items[i]) + (IF i < Len(items) THEN 1 ELSE 0)
             + ItemsLen(items, i + 1)

\* the members from the i-th on: the key in its quotes, the colon, the
\* value, and the commas between them
MembersLen(members, i) ==
    IF i > Len(members) THEN 0
    ELSE 2 + Len(members[i].raw) + 1 + TextLen(members[i].val)
             + (IF i < Len(members) THEN 1 ELSE 0)
             + MembersLen(members, i + 1)

(***************************************************************************)
(* repository.Repository, the nodes and the links                          *)
(***************************************************************************)
\* time.Now().UTC(): the instant the clock shows, the same for every reading
\* until the clock ticks
Now(w) == Instant(w.wall \div 86400, w.wall % 86400, w.clock)

\* the metadata {"weight": 1}
WeightMeta == [x \in {WeightKey} |-> Number(FALSE, <<1>>, 1)]

\* Meta["chunks"].([]interface{}): the key is there and holds a list
HasChunks(m) == ChunksKey \in DOMAIN m /\ m[ChunksKey].k = "arr"
Chunks(m) == IF HasChunks(m) THEN m[ChunksKey].v ELSE <<>>

\* the metadata of a node apart from its "chunks"
UserMeta(m) == [x \in (DOMAIN m) \ {ChunksKey} |-> m[x]]

\* the deep copy of metadata that is not nil: json.Marshal(meta), then
\* json.Unmarshal into a new map
CopyMeta(meta) ==
    Only({objectInterface(p.members, 1, NoMeta).v : p \in {MapToken(meta)}})

\* node.Meta before the chunks are added: a new map when meta is nil, else
\* the deep copy
NodeMeta(meta) == IF meta = NilMeta THEN NoMeta ELSE CopyMeta(meta)

\* the text of a node or of a link, with the number of its bytes and its
\* length in the unit of the chunk sizes
JSONText(kind, tree, size) ==
    [k |-> kind, text |-> tree, n |-> TextLen(tree), size |-> size]

\* json.Marshal(node), json.Marshal(link)
MarshalNode(node) ==
    JSONText("node",
             StructToken(NodeFields,
                         <<StringOf(node.ID), StringOf(node.Type),
                           BytesToken(node.Content), MetaToken(node.Meta),
                           TimeToken(node.Created),
                           TimeToken(node.Modified)>>),
             EnvelopeOverhead + Size(node.Content))
MarshalLink(link) ==
    JSONText("link",
             StructToken(LinkFields,
                         <<StringOf(link.Source), StringOf(link.Target),
                           StringOf(link.Type), MetaToken(link.Meta),
                           TimeToken(link.Created),
                           TimeToken(link.Modified)>>),
             EnvelopeOverhead)

\* a node and a link that have their zero value
ZeroNode ==
    [ID |-> EmptyString, Type |-> EmptyString, Content |-> NoBytes,
     Meta |-> NilMeta, Created |-> ZeroTime, Modified |-> ZeroTime]
ZeroLink ==
    [Source |-> EmptyString, Target |-> EmptyString, Type |-> EmptyString,
     Meta |-> NilMeta, Created |-> ZeroTime, Modified |-> ZeroTime]

\* json.Unmarshal(data, &v) of the bytes of a payload: a text the encoder
\* wrote is decoded from its tokens, raw bytes are scanned first, and the
\* bytes of a part of a text, of several texts or of a text some of whose
\* bytes were written over are no JSON text
Unmarshal(fields, d) ==
    Only({StoreValue(fields, p) :
          p \in {CASE d.k \in {"node", "link"} -> [ok |-> TRUE, v |-> d.text]
                   [] d.k = "bin" -> checkValid(d.b)
                   [] OTHER -> [ok |-> FALSE]}})

\* json.Unmarshal(data, &node)
UnmarshalNode(d) ==
    Only({IF u.err THEN [ok |-> FALSE, node |-> ZeroNode]
          ELSE [ok |-> TRUE,
                node |-> [ID |-> u.s[1], Type |-> u.s[2], Content |-> u.s[3],
                          Meta |-> u.s[4], Created |-> u.s[5],
                          Modified |-> u.s[6]]] :
          u \in {Unmarshal(NodeFields, d)}})

\* json.Unmarshal(data, &link)
UnmarshalLink(d) ==
    Only({IF u.err THEN [ok |-> FALSE, link |-> ZeroLink]
          ELSE [ok |-> TRUE,
                link |-> [Source |-> u.s[1], Target |-> u.s[2],
                          Type |-> u.s[3], Meta |-> u.s[4],
                          Created |-> u.s[5], Modified |-> u.s[6]]] :
          u \in {Unmarshal(LinkFields, d)}})

\* the magic of a repository file and the format version of this build
MagicNumber == "MEMEX01"
CurrentVersion == [Major |-> 1, Minor |-> 1]

\* RepositoryVersion.IsCompatible: the same major version
IsCompatible(v, other) == v.Major = other.Major

\* the header Create writes at offset 0
NewHeader(now) ==
    [Magic |-> MagicNumber, FormatVersion |-> CurrentVersion.Major,
     FormatMinor |-> CurrentVersion.Minor, NodeCount |-> 0, EdgeCount |-> 0,
     Created |-> now, Modified |-> now]

\* an Open that accepts every format version
OpenCheckMagicOnly(h) == h.Magic = MagicNumber

\* the checks of Open on the header it read: magic, then format version
OpenCheck(h) ==
    /\ h.Magic = MagicNumber
    /\ IsCompatible(CurrentVersion,
                    [Major |-> h.FormatVersion, Minor |-> h.FormatMinor])

\* RepositoryVersion.String: major and minor with a dot between them
VersionString(v) == <<48 + v.Major, 46, 48 + v.Minor>>

\* the seven bytes of the Magic of a header
MagicBytes(magic) ==
    CASE magic = "MEMEX01" -> <<77, 69, 77, 69, 88, 48, 49>>
      [] magic = "MEMEX02" -> <<77, 69, 77, 69, 88, 48, 50>>
      [] magic = "CHNK"    -> <<67, 72, 78, 75, 0, 0, 0>>
      [] OTHER             -> [i \in 1..7 |-> 0]

\* binary.LittleEndian: the n bytes of the value v, and the value of bytes
RECURSIVE PutUint(_, _)
PutUint(v, n) ==
    IF n = 0 THEN <<>> ELSE <<v % 256>> \o PutUint(v \div 256, n - 1)
RECURSIVE Uint(_)
Uint(b) == IF b = <<>> THEN 0 ELSE Head(b) + 256 * Uint(Tail(b))

\* ChunkMagic 0x4B4E4843 in the byte order of the file: "CHNK"
ChunkMagicBytes == <<67, 72, 78, 75>>

\* binary.Write(..., binary.LittleEndian, &header): the HeaderSize bytes of
\* a header, field after field.  MemexVersion is the version text of the
\* build that created the file, NodeIndex, EdgeIndex and Reserved are zero
HeaderBytes(h) ==
    MagicBytes(h.Magic) \o <<h.FormatVersion, h.FormatMinor>>
        \o [i \in 1..32 |->
               IF i <= Len(VersionString(CurrentVersion))
               THEN VersionString(CurrentVersion)[i] ELSE 0]
        \o PutUint(h.Created, 8) \o PutUint(h.Modified, 8)
        \o PutUint(h.NodeCount, 4) \o PutUint(h.EdgeCount, 4)
        \o [i \in 1..47 |-> 0]

\* the record that starts at offset s after the bytes hb were written at
\* pos.  The byte at offset o of the record is hb[s + o - pos + 1] where the
\* write covers it.  A record that loses a byte of its magic is a record no
\* more; one that keeps it has the Size, Hash, RefCount and Checksum the
\* bytes of its header now spell, and data that is no longer the data
\* written where the write covers any of it.  The Checksum stored by
\* writeChunk is zero, so the sum is "ok" when its four bytes are zero; of a
\* Checksum that was not zero the bytes the write leaves are taken to keep
\* it so.  The values stay below 2^31: no byte of a header is above 127.
PatchSegment(seg, s, hb, pos) ==
    LET Covered(o) == pos <= s + o /\ s + o < pos + Len(hb)
        Byte(o, old) == IF Covered(o) THEN hb[s + o - pos + 1] ELSE old
        Field(at, old) == [j \in 1..Len(old) |-> Byte(at + j - 1, old[j])]
        n == ByteLen(seg.data)
        size == Uint(Field(4, PutUint(AnnouncedLen(seg), 4)))
        hash == IF \A o \in 8..39 : ~Covered(o) THEN seg.hash
                ELSE IF \A o \in 8..39 : Covered(o)
                THEN Bin(Field(8, [j \in 1..32 |-> 0]))
                ELSE [k |-> "patched", of |-> seg.hash,
                      b |-> Field(8, [j \in 1..32 |-> -1])]
        sum == IF /\ seg.sum = "ok" \/ \A o \in 48..51 : Covered(o)
                  /\ Field(48, <<0, 0, 0, 0>>) = <<0, 0, 0, 0>>
               THEN "ok" ELSE "bad"
    IN  IF Field(0, ChunkMagicBytes) # ChunkMagicBytes
        THEN [seg EXCEPT !.data = Overwritten(seg.data), !.ref = 0]
        ELSE [hash |-> hash,
              ref |-> Uint(Field(40, PutUint(seg.ref, 4))),
              sum |-> sum,
              data |-> IF size # AnnouncedLen(seg) THEN Resized(n, size)
                       ELSE IF \E o \in 52..(51 + n) : Covered(o)
                       THEN Garbled(n)
                       ELSE seg.data]

\* binary.Write(r.file, ..., &r.header), the write of the bytes of the
\* header h at the offset pos of the handle: at 0 the header of the file is
\* replaced.  Past it the HeaderSize bytes from pos on are those of the
\* chunk area: every record that has its magic and any byte among them is
\* patched, and where they run past the end of the file the file grows to
\* pos + HeaderSize.  No four bytes of a header, and none of its first or
\* last three with the bytes around them, are the magic of a chunk, so the
\* write makes no record.
WriteHeaderAt(w, h, pos) ==
    IF pos = 0 THEN [w EXCEPT !.diskHeader = h]
    ELSE LET f == w.file
             end == pos + HeaderSize
             hb == HeaderBytes(h)
             g == [i \in 1..Len(f) |->
                     LET s == StartOf(f, i)
                     IN  IF ~HasMagic(f[i]) \/ s >= end
                            \/ s + SegmentLen(f[i]) <= pos
                         THEN f[i]
                         ELSE PatchSegment(f[i], s, hb, pos)]
         IN  [w EXCEPT !.file =
                 IF end > FileSize(f)
                 THEN Append(g, [k |-> "stray", n |-> end - FileSize(f)])
                 ELSE g]

\* updateHeader: Seek(0, 0), then the in-memory header is written
updateHeader(w) == WriteHeaderAt(w, w.header, 0)

\* the header update of every mutation: counter, Modified, updateHeader
TouchHeader(w, field, delta) ==
    LET n == IF delta < 0 /\ w.header[field] = 0 THEN 0
             ELSE w.header[field] + delta
    IN  updateHeader([w EXCEPT !.header[field] = n,
                               !.header.Modified = Unix(w)])

\* the node GetNode builds when the bytes are not a node envelope
BasicNode(id, data) ==
    [ID |-> id, Type |-> EmptyString, Content |-> data,
     Meta |-> NoMeta, Created |-> ZeroTime, Modified |-> ZeroTime]

\* GetContent: the id is hex-decoded and Get is called with the bytes
GetContent(w, id) ==
    LET dec == HexDecodeString(id)
    IN  IF ~dec.ok THEN [err |-> TRUE, data |-> NoBytes]
        ELSE Get(w, <<dec.v>>)

\* GetNode: the direct lookup, then the hex-decoded id for a 64-character id
GetNode(w, id) ==
    LET direct == Get(w, <<id>>)
        dec == HexDecodeString(id)
        viaHex == Get(w, <<dec.v>>)
        failed == direct.err /\ (StrLen(id) # 64 \/ (dec.ok /\ viaHex.err))
        data == IF ~direct.err THEN direct.data
                ELSE IF dec.ok THEN viaHex.data ELSE NoBytes
        parsed == UnmarshalNode(data)
    IN  IF failed THEN [err |-> TRUE, node |-> BasicNode(id, NoBytes)]
        ELSE [err |-> FALSE,
              node |-> IF parsed.ok
                       THEN [parsed.node EXCEPT
                                !.ID = id,
                                !.Meta = IF @ = NilMeta THEN NoMeta ELSE @]
                       ELSE BasicNode(id, data)]

\* the "chunks" metadata AddNode writes: the hex of each content address
ChunkHashes(addresses) ==
    [k |-> "arr",
     v |-> [i \in 1..Len(addresses) |-> HexEncodeToString(addresses[i])]]

\* the steps AddNode and AddNodeWithID share: store the content, build the
\* node and marshal it
NodeEnvelope(p, id, content, nodeType, meta) ==
    MarshalNode([ID |-> id, Type |-> nodeType, Content |-> content,
                 Meta |-> Assign(NodeMeta(meta), ChunksKey,
                                 ChunkHashes(p.addresses)),
                 Created |-> Now(p.w), Modified |-> Now(p.w)])

\* AddNode: an error of either Put ends it where it stands
AddNode(w, content, nodeType, meta) ==
    Only({
        IF p.err THEN [w |-> p.w, err |-> TRUE, id |-> EmptyString]
        ELSE Only({
            IF q.err \/ Len(q.addresses) = 0
            THEN [w |-> q.w, err |-> TRUE, id |-> EmptyString]
            ELSE LET id == HexEncodeToString(q.addresses[1])
                     w3 == TouchHeader(q.w, "NodeCount", 1)
                 IN  [w |-> RecordAction(w3, ActionAddNode,
                                [id |-> id, type |-> nodeType, meta |-> meta]),
                      err |-> FALSE, id |-> id] :
            q \in {Put(p.w, NodeEnvelope(p, EmptyString, content, nodeType,
                                         meta))}}) :
        p \in {Put(w, content)}})

\* AddNodeWithID: an error of Put or of PutWithID ends it where it stands
AddNodeWithID(w, id, content, nodeType, meta) ==
    Only({
        IF p.err THEN [w |-> p.w, err |-> TRUE, id |-> id]
        ELSE Only({
            IF q.err THEN [w |-> q.w, err |-> TRUE, id |-> id]
            ELSE [w |-> RecordAction(TouchHeader(q.w, "NodeCount", 1),
                            ActionAddNode,
                            [id |-> id, type |-> nodeType, meta |-> meta]),
                  err |-> FALSE, id |-> id] :
            q \in {PutWithID(p.w, id,
                             NodeEnvelope(p, id, content, nodeType, meta))}}) :
        p \in {Put(w, content)}})

\* ListNodes: the hex of every address ListChunks reports
ListNodes(w, order) ==
    LET chunks == ListChunks(w, order)
    IN  [i \in 1..Len(chunks) |-> HexEncodeToString(chunks[i])]

\* the scan GetLinks and DeleteLink share: the chunks, in ListChunks order,
\* that Get resolves and json.Unmarshal decodes as a link
RECURSIVE ScanLinks(_, _, _)
ScanLinks(w, chunks, i) ==
    IF i > Len(chunks) THEN <<>>
    ELSE LET g == Get(w, <<chunks[i]>>)
             u == UnmarshalLink(g.data)
         IN  IF ~g.err /\ u.ok
             THEN <<[chunk |-> chunks[i], link |-> u.link]>>
                      \o ScanLinks(w, chunks, i + 1)
             ELSE ScanLinks(w, chunks, i + 1)

\* links[i].Meta["order"].(float64)
HasOrder(l) == OrderKey \in DOMAIN l.Meta /\ l.Meta[OrderKey].k = "num"

\* the comparison GetLinks sorts by
LinkLess(a, b) ==
    IF TimeEqual(a.Created, b.Created) /\ HasOrder(a) /\ HasOrder(b)
    THEN NumLess(a.Meta[OrderKey], b.Meta[OrderKey])
    ELSE TimeBefore(a.Created, b.Created)

\* the inner loop of the insertion sort: the element at j moves toward the
\* front while it is less than the one before it
RECURSIVE SiftLink(_, _)
SiftLink(ls, j) ==
    IF j > 1 /\ LinkLess(ls[j], ls[j - 1])
    THEN SiftLink([ls EXCEPT ![j] = ls[j - 1], ![j - 1] = ls[j]], j - 1)
    ELSE ls

RECURSIVE InsertLinks(_, _)
InsertLinks(ls, i) ==
    IF i > Len(ls) THEN ls ELSE InsertLinks(SiftLink(ls, i), i + 1)

\* sort.Slice(links, less): for the few links of a repository of this size
\* (fewer than twelve) the sort is an insertion sort
SortLinks(ls) == InsertLinks(ls, 2)

\* GetLinks
GetLinks(w, nodeID, order) ==
    LET found == SelectSeq(ScanLinks(w, ListChunks(w, order), 1),
                     LAMBDA e : e.link.Source = nodeID
                                \/ e.link.Target = nodeID)
    IN  SortLinks([i \in 1..Len(found) |-> found[i].link])

\* DeleteLink: the first matching chunk in ListChunks order is deleted; with
\* no match nothing is done and nil is returned; an error of Delete ends it
DeleteLink(w, source, target, linkType, order) ==
    LET found == SelectSeq(ScanLinks(w, ListChunks(w, order), 1),
                     LAMBDA e : e.link.Source = source
                                /\ e.link.Target = target
                                /\ e.link.Type = linkType)
    IN  IF found = <<>> THEN [w |-> w, err |-> FALSE]
        ELSE Only({
            IF d.err THEN d
            ELSE [w |-> RecordAction(TouchHeader(d.w, "EdgeCount", -1),
                            ActionDeleteLink,
                            [source |-> source, target |-> target,
                             type |-> linkType]),
                  err |-> FALSE] :
            d \in {Delete(w, <<found[1].chunk>>)}})

\* the link AddLink stores: metadata that is not nil is deep-copied, nil
\* metadata stays nil
NewLink(w, source, target, linkType, meta) ==
    MarshalLink([Source |-> source, Target |-> target, Type |-> linkType,
                 Meta |-> IF meta # NilMeta THEN CopyMeta(meta) ELSE meta,
                 Created |-> Now(w), Modified |-> Now(w)])

\* AddLink
AddLink(w, source, target, linkType, meta) ==
    IF GetNode(w, source).err \/ GetNode(w, target).err
    THEN [w |-> w, err |-> TRUE]
    ELSE Only({
        IF p.err THEN [w |-> p.w, err |-> TRUE]
        ELSE [w |-> RecordAction(TouchHeader(p.w, "EdgeCount", 1),
                        ActionAddLink,
                        [source |-> source, target |-> target,
                         type |-> linkType, meta |-> meta]),
              err |-> FALSE] :
        p \in {Put(w, NewLink(w, source, target, linkType, meta))}})

\* the cascade of DeleteNode: one DeleteLink per link GetLinks returned, up
\* to the first that returns an error; the first range of DeleteNode is that
\* of GetLinks, the next ones are those of the DeleteLink calls
RECURSIVE DeleteLinks(_, _, _, _)
DeleteLinks(w, links, i, orders) ==
    IF i > Len(links) THEN [w |-> w, err |-> FALSE]
    ELSE Only({IF r.err THEN r ELSE DeleteLinks(r.w, links, i + 1, orders) :
                  r \in {DeleteLink(w, links[i].Source, links[i].Target,
                                    links[i].Type, OrderAt(orders, i + 1))}})

\* chunk.(string): the element of the "chunks" list is a string
IsString(v) == v.k \notin {"num", "bool", "nil", "arr", "obj"}

\* the content chunks of DeleteNode: one store Delete per "chunks" entry
\* that is a hex string, up to the first that returns an error
RECURSIVE DeleteContent(_, _, _)
DeleteContent(w, chunkStrs, i) ==
    IF i > Len(chunkStrs) THEN [w |-> w, err |-> FALSE]
    ELSE LET dec == HexDecodeString(chunkStrs[i])
         IN  IF ~IsString(chunkStrs[i]) \/ ~dec.ok
             THEN DeleteContent(w, chunkStrs, i + 1)
             ELSE Only({IF r.err THEN r
                        ELSE DeleteContent(r.w, chunkStrs, i + 1) :
                           r \in {Delete(w, <<dec.v>>)}})

\* DeleteNode
DeleteNode(w, id, orders) ==
    Only({
        IF g.err THEN [w |-> w, err |-> TRUE]
        ELSE Only({
            IF l.err THEN l
            ELSE Only({
                IF c.err THEN c
                ELSE Only({
                    IF d.err THEN d
                    ELSE [w |-> RecordAction(
                                    TouchHeader(d.w, "NodeCount", -1),
                                    ActionDeleteNode, [id |-> id]),
                          err |-> FALSE] :
                    d \in {Delete(c.w, <<id>>)}}) :
                c \in {DeleteContent(l.w, Chunks(g.node.Meta), 1)}}) :
            l \in {DeleteLinks(w, GetLinks(w, id, OrderAt(orders, 1)), 1,
                               orders)}}) :
        g \in {GetNode(w, id)}})

(***************************************************************************)
(* migration.Exporter and migration.Importer, over the operations of the   *)
(* Repository interface.  The archive is its manifest, its nodes/ entries  *)
(* and its edges/ entries, in the order they are written.                  *)
(***************************************************************************)
\* the links of every listed node; the first range of Export is that of
\* ListNodes, the next ones are those of the GetLinks calls
RECURSIVE AllLinks(_, _, _, _)
AllLinks(w, ids, i, orders) ==
    IF i > Len(ids) THEN <<>>
    ELSE GetLinks(w, ids[i], OrderAt(orders, i + 1))
             \o AllLinks(w, ids, i + 1, orders)

\* Export: the nodes are those ListNodes lists, read with GetNode, the edges
\* those GetLinks returns for them; an error of the repository ends it
Export(w, orders) ==
    LET ids == ListNodes(w, OrderAt(orders, 1))
        got == [i \in 1..Len(ids) |-> GetNode(w, ids[i])]
        edges == Dedup(AllLinks(w, ids, 1, orders), {})
    IN  [err |-> \E i \in 1..Len(ids) : got[i].err,
         manifest |-> [Nodes |-> Len(ids), Edges |-> Len(edges)],
         nodes |-> [i \in 1..Len(ids) |-> got[i].node],
         edges |-> edges]

\* Import, the nodes/ entries: the id is prefixed and the node written with
\* AddNodeWithID; with the Skip policy an id that exists is left alone
RECURSIVE ImportNodes(_, _, _, _)
ImportNodes(w, nodes, i, prefix) ==
    IF i > Len(nodes) THEN w
    ELSE LET id == IF prefix THEN PrefixID(nodes[i].ID) ELSE nodes[i].ID
             r == AddNodeWithID(w, id, nodes[i].Content, nodes[i].Type,
                                nodes[i].Meta)
         IN  ImportNodes(IF ~GetNode(w, id).err THEN w ELSE r.w,
                         nodes, i + 1, prefix)

\* Import, the edges/ entries: source and target are prefixed and the link
\* written with AddLink, whose error ends the import
RECURSIVE ImportLinks(_, _, _, _)
ImportLinks(w, edges, i, prefix) ==
    IF i > Len(edges) THEN [w |-> w, err |-> FALSE]
    ELSE LET s == IF prefix THEN PrefixID(edges[i].Source)
                  ELSE edges[i].Source
             t == IF prefix THEN PrefixID(edges[i].Target)
                  ELSE edges[i].Target
             r == AddLink(w, s, t, edges[i].Type, edges[i].Meta)
         IN  IF r.err THEN [w |-> r.w, err |-> TRUE]
             ELSE ImportLinks(r.w, edges, i + 1, prefix)

Import(w, archive, prefix) ==
    ImportLinks(ImportNodes(w, archive.nodes, 1, prefix), archive.edges, 1,
                prefix)

\* the repository Create leaves, the destination of an import
FreshWorld ==
    [file |-> <<>>, index |-> EmptyIndex, header |-> NewHeader(wall),
     diskHeader |-> NewHeader(wall), log |-> <<>>,
     lastHash |-> Zero32, clock |-> clock, wall |-> wall]

(***************************************************************************)
(* The operations when a write to the store file fails with an I/O error.  *)
(* The store call returns the error where it stands and the repository     *)
(* operation returns it to the caller; the steps before it have happened.  *)
(***************************************************************************)
\* the calls inside writeChunk that can return an I/O error: the write of
\* the header, the write of the data and the Sync; and those inside
\* incrementRefCount and decrementRefCount: the write of the header and the
\* Sync
WriteFailures == {"header", "data", "sync"}
CountFailures == {"header", "sync"}

\* writeChunk that returns an error: at the write of the header nothing is
\* in the file, at the write of the data the header is, at the Sync the
\* whole record is
writeChunkFails(f, data, hash, at) ==
    CASE at = "header" -> f
      [] at = "data" ->
             Append(f, [hash |-> hash, data |-> Unwritten(data), ref |-> 1,
                        sum |-> "ok"])
      [] at = "sync" -> writeChunk(f, data, hash)

\* incrementRefCount that returns an error: at the Sync the header has been
\* rewritten
incrementRefCountFails(f, off, at) ==
    IF at = "sync" THEN incrementRefCount(f, off).f ELSE f

\* decrementRefCount that returns an error: at the Sync the header has been
\* rewritten; the index is not touched
decrementRefCountFails(w, off, at) ==
    IF at = "sync" /\ HasMagic(w.file[off])
    THEN [w EXCEPT !.file[off].ref = IF @ > 0 THEN @ - 1 ELSE @,
                   !.file[off].sum = "ok"]
    ELSE w

\* the store when Put reaches chunk i: the action recorded, the chunks before
\* i written or counted
PutUpTo(w, content, i) ==
    LET chunks == Split(content)
        w1 == RecordAction(w, ActionPutContent,
                           [size |-> ByteLen(content), nchunks |-> Len(chunks)])
    IN  PutChunks(w1, SubSeq(chunks, 1, i - 1), 1).w

\* where Put can fail: fail is <<i, at>>, the chunk and the call that fails
PutFailures(w, content) ==
    {fail \in (1..Len(Split(content))) \X WriteFailures :
        HexEncodeToString(Sha256(Split(content)[fail[1]]))
            \in DOMAIN PutUpTo(w, content, fail[1]).index
        => fail[2] \in CountFailures}

\* Put whose incrementRefCount or writeChunk fails on chunk fail[1]
PutFails(w, content, fail) ==
    LET chunk == Split(content)[fail[1]]
        w2 == PutUpTo(w, content, fail[1])
        hashStr == HexEncodeToString(Sha256(chunk))
    IN  IF hashStr \in DOMAIN w2.index
        THEN [w2 EXCEPT !.file = incrementRefCountFails(@, w2.index[hashStr],
                                                         fail[2])]
        ELSE [w2 EXCEPT !.file = writeChunkFails(@, chunk, Sha256(chunk),
                                                  fail[2])]

\* the store when Delete reaches address i
DeleteUpTo(w, addresses, i) ==
    DeleteChunks(RecordAction(w, ActionDeleteContent,
                              [addresses |-> addresses]),
                 SubSeq(addresses, 1, i - 1), 1).w

\* where Delete can fail: fail is <<i, at>>, an address that is found and the
\* call that fails
DeleteFailures(w, addresses) ==
    {fail \in (1..Len(addresses)) \X CountFailures :
        LET idx == DeleteUpTo(w, addresses, fail[1]).index
        IN  DeleteKey(idx, addresses[fail[1]]) \in DOMAIN idx}

\* Delete whose decrementRefCount fails on address fail[1]
DeleteFails(w, addresses, fail) ==
    LET w2 == DeleteUpTo(w, addresses, fail[1])
    IN  decrementRefCountFails(
            w2, w2.index[DeleteKey(w2.index, addresses[fail[1]])], fail[2])

\* where PutWithID can fail: fail is <<call, at>>, the decrementRefCount of
\* the record the id has or the writeChunk, and the call inside it
PutWithIDFailures(w, id) ==
    ({"writeChunk"} \X WriteFailures)
        \cup (IF id \in DOMAIN w.index
              THEN {"decrementRefCount"} \X CountFailures ELSE {})

\* PutWithID that fails: when writeChunk fails the record the id had has
\* been released
PutWithIDFails(w, id, content, fail) ==
    IF fail[1] = "decrementRefCount"
    THEN decrementRefCountFails(w, w.index[id], fail[2])
    ELSE LET w1 == IF id \in DOMAIN w.index
                   THEN decrementRefCount(w, w.index[id], id).w ELSE w
         IN  [w1 EXCEPT !.file = writeChunkFails(@, content, Sha256(content),
                                                  fail[2])]

\* the store and the envelope when AddNode and AddNodeWithID reach their
\* second store call
BeforeEnvelope(w, id, content, nodeType, meta) ==
    LET p == Put(w, content)
    IN  [w |-> p.w,
         data |-> NodeEnvelope(p, id, content, nodeType, meta)]

\* AddNode: the Put of the content (step 1) or of the envelope (step 2) fails
AddNodeStoreFails(w, content, nodeType, meta, step, fail) ==
    LET e == BeforeEnvelope(w, EmptyString, content, nodeType, meta)
    IN  [w |-> IF step = 1 THEN PutFails(w, content, fail)
               ELSE PutFails(e.w, e.data, fail),
         err |-> TRUE]

\* AddNodeWithID: the Put of the content (step 1) or the PutWithID of the
\* envelope (step 2) fails
AddNodeWithIDStoreFails(w, id, content, nodeType, meta, step, fail) ==
    LET e == BeforeEnvelope(w, id, content, nodeType, meta)
    IN  [w |-> IF step = 1 THEN PutFails(w, content, fail)
               ELSE PutWithIDFails(e.w, id, e.data, fail),
         err |-> TRUE]

\* AddLink: the Put of the link fails
AddLinkStoreFails(w, source, target, linkType, meta, fail) ==
    [w |-> PutFails(w, NewLink(w, source, target, linkType, meta), fail),
     err |-> TRUE]

\* the chunk the DeleteLink of the cascade deletes for link j, as a list:
\* empty when no chunk matches
CascadeMatch(w, links, j, orders) ==
    LET found == SelectSeq(ScanLinks(w, ListChunks(w, OrderAt(orders, j + 1)),
                                     1),
                     LAMBDA e : e.link.Source = links[j].Source
                                /\ e.link.Target = links[j].Target
                                /\ e.link.Type = links[j].Type)
    IN  IF found = <<>> THEN <<>> ELSE <<found[1].chunk>>

\* the store when DeleteNode reaches a store call: the Delete inside the
\* DeleteLink of link j (step "link"), the Delete of content chunk j (step
\* "content") or the Delete of the node's own chunk (step "node"), and the
\* addresses of that call
BeforeDelete(w, id, orders, step, j) ==
    LET g == GetNode(w, id)
        links == GetLinks(w, id, OrderAt(orders, 1))
        chunkStrs == Chunks(g.node.Meta)
        w1 == DeleteLinks(w, links, 1, orders).w
        wl == DeleteLinks(w, SubSeq(links, 1, j - 1), 1, orders).w
    IN  CASE step = "link" ->
                 [w |-> wl, addresses |-> CascadeMatch(wl, links, j, orders)]
          [] step = "content" ->
                 [w |-> DeleteContent(w1, SubSeq(chunkStrs, 1, j - 1), 1).w,
                  addresses |->
                      IF IsString(chunkStrs[j])
                             /\ HexDecodeString(chunkStrs[j]).ok
                      THEN <<HexDecodeString(chunkStrs[j]).v>> ELSE <<>>]
          [] step = "node" ->
                 [w |-> DeleteContent(w1, chunkStrs, 1).w,
                  addresses |-> <<id>>]

\* where the store calls of DeleteNode can fail: the step, the link or the
\* content chunk, and the failure of the Delete
DeleteNodeFailures(w, id, orders) ==
    LET g == GetNode(w, id)
        nLinks == Len(GetLinks(w, id, OrderAt(orders, 1)))
        nChunks == Len(Chunks(g.node.Meta))
        calls == ({"link"} \X (1..nLinks)) \cup ({"content"} \X (1..nChunks))
                     \cup {<<"node", 1>>}
    IN  UNION {LET b == BeforeDelete(w, id, orders, c[1], c[2])
               IN  {[step |-> c[1], j |-> c[2], fail |-> f] :
                       f \in DeleteFailures(b.w, b.addresses)} : c \in calls}

\* DeleteNode whose Delete at a step fails: the steps before it are done
DeleteNodeStoreFails(w, id, orders, at) ==
    LET b == BeforeDelete(w, id, orders, at.step, at.j)
    IN  [w |-> DeleteFails(b.w, b.addresses, at.fail), err |-> TRUE]

(***************************************************************************)
(* The operations on a Repository after Close.  Close closes the file of   *)
(* the store, of the action log and of the repository and clears no field; *)
(* no operation tests for it.  Every read and write of a closed file       *)
(* fails, the index of the store is still in memory.                       *)
(***************************************************************************)
\* Get: an address either is not in the index or readChunk fails
ClosedGet(w, addresses) == [err |-> Len(addresses) > 0, data |-> NoBytes]

\* GetNode: a 64-character id that is not hex falls through with no data
ClosedGetNode(w, id) ==
    LET direct == ClosedGet(w, <<id>>)
        dec == HexDecodeString(id)
        viaHex == ClosedGet(w, <<dec.v>>)
        failed == direct.err /\ (StrLen(id) # 64 \/ (dec.ok /\ viaHex.err))
    IN  [err |-> failed, node |-> BasicNode(id, NoBytes)]

\* ListNodes: ListChunks reads the index only
ClosedListNodes(w, order) == [err |-> FALSE, ids |-> ListNodes(w, order)]

\* GetLinks and DeleteLink scan ListChunks and skip each chunk Get fails on
ClosedGetLinks(w, nodeID, order) == [err |-> FALSE, links |-> <<>>]
ClosedDeleteLink(w, source, target, linkType, order) ==
    [err |-> FALSE, w |-> w]

\* AddNode, AddNodeWithID: RecordAction of Put, writeChunk of PutWithID fail
ClosedAddNode(w, content, nodeType, meta) == [err |-> TRUE, w |-> w]

\* AddLink: GetNode of an endpoint fails, or else RecordAction of Put
ClosedAddLink(w, source, target, linkType, meta) == [err |-> TRUE, w |-> w]

\* DeleteNode: GetNode fails, or else RecordAction of the store's Delete
ClosedDeleteNode(w, id, orders) == [err |-> TRUE, w |-> w]

(***************************************************************************)
(* The state machine.  Init is the state Create leaves: a fresh header, an *)
(* empty store and an empty action log.                                    *)
(***************************************************************************)
Threads == 1..NumThreads

\* the offset of the first byte of the log file
LogStart == 0
NoAction == NewAction("", [none |-> 0], [sec |-> 0, nsec |-> 0], Zero32)

Init ==
    /\ wall = 0
    /\ unsynced = Synced
    /\ phase = "open"
    /\ file = <<>>
    /\ index = EmptyIndex
    /\ header = NewHeader(wall)
    /\ diskHeader = NewHeader(wall)
    /\ log = <<>>
    /\ lastHash = Zero32
    /\ clock = 0
    /\ ops = 0
    /\ liveNodes = {}
    /\ deadNodes = {}
    /\ mu = 0
    /\ pc = [t \in Threads |-> "idle"]
    /\ pending = [t \in Threads |-> NoAction]
    /\ logPos = LogStart
    /\ logLens = <<>>
    /\ filePos = 0

\* the world after an operation becomes the state
Install(w) ==
    /\ file' = w.file
    /\ index' = w.index
    /\ header' = w.header
    /\ diskHeader' = w.diskHeader
    /\ log' = w.log
    /\ lastHash' = w.lastHash
    /\ clock' = w.clock

\* the inputs the operations are called with.  The content of a node is
\* bytes the caller made up or bytes it read from the repository: what
\* GetContent returns for an id ListNodes lists, the text of a stored link
\* or of a stored node among them
BinaryContents == {Bin(<<0, 1>>), Bin(<<1, 1, 1>>)}
IDContents == {Bin(<<1>>)}
NodeTypes == {NoteType}
LinkTypes == {TestType}
CallerIDs == {Label(1), Label64(1)}
Endpoints == liveNodes \cup {Label64(1)}
ListedIDs ==
    LET listed == ListNodes(World, <<>>)
    IN  {listed[i] : i \in 1..Len(listed)}
NodeIDs == CallerIDs \cup ListedIDs
ReadContents ==
    {g.data : g \in {r \in {GetContent(World, id) : id \in ListedIDs} :
                         ~r.err}}
NodeContents == BinaryContents \cup ReadContents

\* the orders of a range that differ in the address it meets first
FirstOrders(w) == {<<>>} \cup {<<a>> : a \in ChunkAddrs(w.index)}

\* the orders of a range that differ in the link it meets first: the scans of
\* GetLinks and DeleteLink pass over every chunk that does not decode as a
\* link, DeleteLink deletes the first match it meets and GetLinks sorts what
\* it found
RangeOrders(w) ==
    {<<>>} \cup {<<a>> : a \in {b \in ChunkAddrs(w.index) :
                                   ScanLinks(w, <<b>>, 1) # <<>>}}

\* the orders of the ranges of DeleteNode: that of GetLinks, then one for
\* the DeleteLink of each link
CascadeOrders(w, id) ==
    [1..(1 + Len(GetLinks(w, id, <<>>))) -> RangeOrders(w)]

\* the orders of the ranges of Export that differ in the id listed first
ExportOrders(w) == {<<order>> : order \in FirstOrders(w)}

DoAddNode(content, nodeType, meta) ==
    /\ phase = "open" /\ ops < MaxOps
    /\ LET r == AddNode(World, content, nodeType, meta)
       IN  /\ Install(r.w)
           /\ liveNodes' = IF r.err THEN liveNodes ELSE liveNodes \cup {r.id}
           /\ deadNodes' = IF r.err THEN deadNodes ELSE deadNodes \ {r.id}
    /\ ops' = ops + 1
    /\ UNCHANGED <<envVars, phase, threadVars>>

DoAddNodeWithID(id, content, nodeType, meta) ==
    /\ phase = "open" /\ ops < MaxOps
    /\ LET r == AddNodeWithID(World, id, content, nodeType, meta)
       IN  /\ Install(r.w)
           /\ liveNodes' = IF r.err THEN liveNodes ELSE liveNodes \cup {id}
           /\ deadNodes' = IF r.err THEN deadNodes ELSE deadNodes \ {id}
    /\ ops' = ops + 1
    /\ UNCHANGED <<envVars, phase, threadVars>>

DoDeleteNode(id, orders) ==
    /\ phase = "open" /\ ops < MaxOps
    /\ \E r \in {DeleteNode(World, id, orders)} :
           /\ Install(r.w)
           /\ liveNodes' = IF r.err THEN liveNodes ELSE liveNodes \ {id}
           /\ deadNodes' = IF ~r.err /\ id \in liveNodes
                           THEN deadNodes \cup {id} ELSE deadNodes
           /\ ops' = IF r.err THEN ops ELSE ops + 1
    /\ UNCHANGED <<envVars, phase, threadVars>>

DoAddLink(source, target, linkType, meta) ==
    /\ phase = "open" /\ ops < MaxOps
    /\ LET r == AddLink(World, source, target, linkType, meta)
       IN  /\ Install(r.w)
           /\ ops' = IF r.err THEN ops ELSE ops + 1
    /\ UNCHANGED <<envVars, phase, liveNodes, deadNodes, threadVars>>

DoDeleteLink(source, target, linkType, order) ==
    /\ phase = "open" /\ ops < MaxOps
    /\ LET r == DeleteLink(World, source, target, linkType, order)
       IN  /\ Install(r.w)
           /\ ops' = IF r.w = World THEN ops ELSE ops + 1
    /\ UNCHANGED <<envVars, phase, liveNodes, deadNodes, threadVars>>

\* Open: the header is read back, NewStore rebuilds the index by scanning
\* the file and NewActionStore takes the hash of what readLastAction found
Open(w, last) ==
    [w EXCEPT !.header = w.diskHeader,
              !.index = loadIndex(w.file, 0, EmptyIndex),
              !.lastHash = last.hash]

\* Close: the store, the action log and the file are closed
DoClose ==
    /\ phase = "open" /\ ops < MaxOps
    /\ phase' = "closed"
    /\ ops' = ops + 1
    /\ UNCHANGED <<file, index, header, diskHeader, log, lastHash, clock,
                   liveNodes, deadNodes, threadVars>>

\* Open: a header that fails the checks gives an error and no repository
DoOpen ==
    /\ phase \in {"unopened", "closed"}
    /\ IF OpenCheck(diskHeader)
       THEN /\ phase' = "open"
            /\ \E last \in readLastAction(log) : Install(Open(World, last))
       ELSE /\ phase' = "failed"
            /\ UNCHANGED <<file, index, header, diskHeader, log, lastHash,
                           clock>>
    /\ UNCHANGED <<ops, liveNodes, deadNodes, threadVars>>

\* the read operations.  GetNode, GetContent and GetLinks call Get and
\* ListChunks of the store, which take its read lock, look keys up in the
\* index and read records; ListNodes calls ListChunks.  None of them calls
\* RecordAction, updateHeader or a write of the store: the call returns its
\* result to the caller and the repository is as it was
DoGetNode(id) ==
    /\ phase = "open" /\ ops < MaxOps
    /\ UNCHANGED <<envVars, phase, file, index, header, diskHeader, log,
                   lastHash, clock, liveNodes, deadNodes, threadVars>>
    /\ \E g \in {GetNode(World, id)} : ops' = ops + 1

DoGetContent(id) ==
    /\ phase = "open" /\ ops < MaxOps
    /\ UNCHANGED <<envVars, phase, file, index, header, diskHeader, log,
                   lastHash, clock, liveNodes, deadNodes, threadVars>>
    /\ \E g \in {GetContent(World, id)} : ops' = ops + 1

DoGetLinks(nodeID, order) ==
    /\ phase = "open" /\ ops < MaxOps
    /\ UNCHANGED <<envVars, phase, file, index, header, diskHeader, log,
                   lastHash, clock, liveNodes, deadNodes, threadVars>>
    /\ \E links \in {GetLinks(World, nodeID, order)} : ops' = ops + 1

DoListNodes(order) ==
    /\ phase = "open" /\ ops < MaxOps
    /\ UNCHANGED <<envVars, phase, file, index, header, diskHeader, log,
                   lastHash, clock, liveNodes, deadNodes, threadVars>>
    /\ \E ids \in {ListNodes(World, order)} : ops' = ops + 1

\* the wall clock reaches the next nanosecond
NanosecondPasses ==
    /\ clock < MaxNanos
    /\ clock' = clock + 1
    /\ UNCHANGED <<phase, file, index, header, diskHeader, log, lastHash,
                   ops, liveNodes, deadNodes, mu, pc, pending, logPos,
                   logLens, filePos, wall, unsynced>>

\* the wall clock reaches the start of the next second
SecondPasses ==
    /\ wall < MaxSeconds
    /\ wall' = wall + 1
    /\ clock' = 0
    /\ UNCHANGED <<phase, file, index, header, diskHeader, log, lastHash,
                   ops, liveNodes, deadNodes, mu, pc, pending, logPos,
                   logLens, filePos, unsynced>>

\* an operation is called on an open repository; the inputs of a call are
\* drawn where one can be made
CanCall == phase = "open" /\ ops < MaxOps

Next ==
    \/ CanCall /\ \E c \in NodeContents, ty \in NodeTypes :
           DoAddNode(c, ty, NoMeta)
    \/ \E id \in CallerIDs, c \in IDContents, ty \in NodeTypes :
           DoAddNodeWithID(id, c, ty, WeightMeta)
    \/ CanCall /\ \E id \in NodeIDs :
           \E orders \in CascadeOrders(World, id) : DoDeleteNode(id, orders)
    \/ \E s \in Endpoints : \E t \in Endpoints \ {s}, ty \in LinkTypes :
           DoAddLink(s, t, ty, WeightMeta)
    \/ CanCall /\ \E s \in Endpoints : \E t \in Endpoints \ {s},
          ty \in LinkTypes, order \in RangeOrders(World) :
           DoDeleteLink(s, t, ty, order)
    \/ CanCall /\ \E id \in NodeIDs : DoGetNode(id)
    \/ CanCall /\ \E id \in NodeIDs : DoGetContent(id)
    \/ CanCall /\ \E id \in Endpoints, order \in RangeOrders(World) :
           DoGetLinks(id, order)
    \/ CanCall /\ \E order \in FirstOrders(World) : DoListNodes(order)
    \/ DoClose
    \/ DoOpen
    \/ NanosecondPasses
    \/ SecondPasses

Spec == Init /\ [][Next]_vars

(***************************************************************************)
(* The chunk store on its own: Put, PutWithID and Delete in any order, and *)
(* Close followed by NewStore on the same file.                            *)
(***************************************************************************)
StoreContents == {NoBytes, Bin(<<1>>), Bin(<<0, 1>>), Bin(<<1, 1, 1, 1>>)}
KeyedContents == {Bin(<<0, 1>>)}
StoreIDs ==
    {Label(1), HexEncodeToString(Sha256(Bin(<<1>>))), Prefixed(Bin(<<1>>))}

\* the addresses Put returns for a content: the hash of each of its chunks
Addresses(content) ==
    [i \in 1..Len(Split(content)) |-> Sha256(Split(content)[i])]
StoreAddresses ==
    {Addresses(c) : c \in StoreContents \ {NoBytes}}
        \cup {<<id>> : id \in StoreIDs}

StorePut(content) ==
    /\ phase = "open" /\ ops < MaxStoreOps
    /\ Install(Put(World, content).w)
    /\ ops' = ops + 1
    /\ UNCHANGED <<envVars, phase, liveNodes, deadNodes, threadVars>>

StorePutWithID(id, content) ==
    /\ phase = "open" /\ ops < MaxStoreOps
    /\ Install(PutWithID(World, id, content).w)
    /\ ops' = ops + 1
    /\ UNCHANGED <<envVars, phase, liveNodes, deadNodes, threadVars>>

StoreDelete(addresses) ==
    /\ phase = "open" /\ ops < MaxStoreOps
    /\ Install(Delete(World, addresses).w)
    /\ ops' = ops + 1
    /\ UNCHANGED <<envVars, phase, liveNodes, deadNodes, threadVars>>

\* ChunkStore.Close, then NewStore: the index is rebuilt by loadIndex
StoreReopen ==
    /\ phase = "open" /\ ops < MaxStoreOps
    /\ index' = loadIndex(file, 0, EmptyIndex)
    /\ ops' = ops + 1
    /\ UNCHANGED <<envVars, file, header, diskHeader, log, lastHash, clock,
                   phase, liveNodes, deadNodes, threadVars>>

NextStore ==
    \/ \E c \in StoreContents : StorePut(c)
    \/ \E id \in StoreIDs, c \in KeyedContents : StorePutWithID(id, c)
    \/ \E a \in StoreAddresses : StoreDelete(a)
    \/ StoreReopen

SpecStore == Init /\ [][NextStore]_vars

(***************************************************************************)
(* The action log under concurrent callers: each thread runs RecordAction  *)
(* one statement at a time, in one open session.                           *)
(***************************************************************************)
ActionTypes == {ActionAddNode, ActionAddLink}

MuLockBroken(m) == TRUE

\* as.mu.Lock() returns only when no other caller holds the mutex
MuLock(m) == m = 0

\* a thread calls RecordAction(actionType, payload)
LogCall(t, actionType) ==
    /\ pc[t] = "idle"
    /\ Len(log) + Cardinality({u \in Threads : pc[u] # "idle"}) < MaxRecords
    /\ pc' = [pc EXCEPT ![t] = "lock"]
    /\ pending' = [pending EXCEPT
                      ![t] = NewAction(actionType, [thread |-> t],
                                       NoAction.Timestamp, Zero32)]
    /\ UNCHANGED <<repoVars, mu>>

\* as.mu.Lock()
LogLock(t) ==
    /\ pc[t] = "lock"
    /\ MuLock(mu)
    /\ mu' = t
    /\ pc' = [pc EXCEPT ![t] = "build"]
    /\ UNCHANGED <<repoVars, pending>>

\* the Action is built from time.Now() and as.lastHash, then its state hash
LogBuild(t) ==
    /\ pc[t] = "build"
    /\ LET built == NewAction(pending[t].Type, pending[t].Payload,
                              TimeNow(World), lastHash)
       IN  pending' = [pending EXCEPT
                          ![t] = [built EXCEPT
                                     !.StateHash = calculateStateHash(built)]]
    /\ pc' = [pc EXCEPT ![t] = "write"]
    /\ UNCHANGED <<repoVars, mu>>

\* as.writeAction(action)
LogWrite(t) ==
    /\ pc[t] = "write"
    /\ log' = writeAction(log, pending[t])
    /\ pc' = [pc EXCEPT ![t] = "hash"]
    /\ UNCHANGED <<envVars, file, index, header, diskHeader, lastHash, clock,
                   phase, ops, liveNodes, deadNodes, mu, pending>>

\* as.lastHash, err = action.Hash()
LogHash(t) ==
    /\ pc[t] = "hash"
    /\ lastHash' = ActionHash(pending[t])
    /\ pc' = [pc EXCEPT ![t] = "unlock"]
    /\ UNCHANGED <<envVars, file, index, header, diskHeader, log, clock, ops,
                   phase, liveNodes, deadNodes, mu, pending>>

\* the deferred as.mu.Unlock()
LogUnlock(t) ==
    /\ pc[t] = "unlock"
    /\ mu' = 0
    /\ pc' = [pc EXCEPT ![t] = "idle"]
    /\ UNCHANGED <<repoVars, pending>>

NextLog ==
    \/ \E t \in Threads, ty \in ActionTypes : LogCall(t, ty)
    \/ \E t \in Threads : LogLock(t)
    \/ \E t \in Threads : LogBuild(t)
    \/ \E t \in Threads : LogWrite(t)
    \/ \E t \in Threads : LogHash(t)
    \/ \E t \in Threads : LogUnlock(t)

SpecLog == Init /\ [][NextLog]_vars

(***************************************************************************)
(* Open on files written by any build: the header at offset 0 holds any    *)
(* magic and any format version, the store and the action log are empty.   *)
(***************************************************************************)
MaxVersion == 2
Magics == {MagicNumber, "MEMEX02", "CHNK"}
NoHeader ==
    [Magic |-> "", FormatVersion |-> 0, FormatMinor |-> 0, NodeCount |-> 0,
     EdgeCount |-> 0, Created |-> 0, Modified |-> 0]

InitOpen ==
    /\ wall = 0
    /\ unsynced = Synced
    /\ phase = "unopened"
    /\ file = <<>>
    /\ index = EmptyIndex
    /\ header = NoHeader
    /\ diskHeader \in
           {[NewHeader(wall) EXCEPT !.Magic = mg, !.FormatVersion = major,
                                       !.FormatMinor = minor,
                                       !.NodeCount = n, !.EdgeCount = e] :
                mg \in Magics, major \in 0..MaxVersion,
                minor \in 0..MaxVersion, n \in 0..1, e \in 0..1}
    /\ log = <<>>
    /\ lastHash = Zero32
    /\ clock = 0
    /\ ops = 0
    /\ liveNodes = {}
    /\ deadNodes = {}
    /\ mu = 0
    /\ pc = [t \in Threads |-> "idle"]
    /\ pending = [t \in Threads |-> NoAction]
    /\ logPos = LogStart
    /\ logLens = <<>>
    /\ filePos = 0

NextOpen ==
    \/ DoOpen
    \/ DoClose

SpecOpen == InitOpen /\ [][NextOpen]_vars

(***************************************************************************)
(* AddNode called from several goroutines on one Repository.  The store    *)
(* and the action log each take their own mutex for the length of one      *)
(* call; the Repository takes none (its lockMgr field is never locked), so *)
(* between the calls into the store, and within r.header.NodeCount++, a    *)
(* read of the counter followed by a write, the goroutines interleave.     *)
(***************************************************************************)
NoCall ==
    [content |-> NoBytes, addresses |-> <<>>, count |-> 0,
     id |-> EmptyString, chunks |-> <<>>, i |-> 0, now |-> 0,
     buf |-> NoHeader, action |-> NoAction]

InitConcurrent ==
    /\ wall = 0
    /\ unsynced = Synced
    /\ phase = "open"
    /\ file = <<>>
    /\ index = EmptyIndex
    /\ header = NewHeader(wall)
    /\ diskHeader = NewHeader(wall)
    /\ log = <<>>
    /\ lastHash = Zero32
    /\ clock = 0
    /\ ops = 0
    /\ liveNodes = {}
    /\ deadNodes = {}
    /\ mu = 0
    /\ pc = [t \in Threads |-> "idle"]
    /\ pending = [t \in Threads |-> NoCall]
    /\ logPos = LogStart
    /\ logLens = <<>>
    /\ filePos = HeaderSize

\* Put up to its loop: s.mutex.Lock(), the split of the payload and
\* RecordAction, which runs to completion under ActionStore.mu
StorePutRecord(t, payload, next) ==
    /\ mu = 0
    /\ mu' = t
    /\ Install(RecordAction(World, ActionPutContent,
                            [size |-> ByteLen(payload),
                             nchunks |-> Len(Split(payload))]))
    /\ pending' = [pending EXCEPT ![t].chunks = Split(payload), ![t].i = 1]
    /\ pc' = [pc EXCEPT ![t] = next]
    /\ UNCHANGED <<envVars, phase, ops, liveNodes, deadNodes>>

\* AddNode is called
AddNodeCall(t, content) ==
    /\ pc[t] = "idle"
    /\ pc' = [pc EXCEPT ![t] = "content"]
    /\ pending' = [pending EXCEPT ![t].content = content]
    /\ UNCHANGED <<repoVars, mu>>

\* chunks, err := r.store.Put(content): up to the loop
AddNodePutContent(t) ==
    /\ pc[t] = "content"
    /\ StorePutRecord(t, pending[t].content, "contentChunks")

\* r.store.Put, a pass of its loop; on an error Put and AddNode return it
\* and the deferred s.mutex.Unlock() runs
AddNodePutChunk(t) ==
    /\ pc[t] \in {"contentChunks", "nodeChunks"}
    /\ pending[t].i <= Len(pending[t].chunks)
    /\ LET r == PutChunk(World, pending[t].chunks[pending[t].i])
       IN  /\ Install(r.w)
           /\ IF r.err
              THEN /\ pc' = [pc EXCEPT ![t] = "failed"]
                   /\ mu' = 0
                   /\ UNCHANGED pending
              ELSE /\ pending' = [pending EXCEPT ![t].i = @ + 1]
                   /\ UNCHANGED <<pc, mu>>
    /\ UNCHANGED <<envVars, phase, ops, liveNodes, deadNodes>>

\* r.store.Put returns the addresses of the chunks; s.mutex.Unlock()
AddNodePutReturn(t) ==
    /\ pc[t] \in {"contentChunks", "nodeChunks"}
    /\ pending[t].i > Len(pending[t].chunks)
    /\ mu' = 0
    /\ pending' = [pending EXCEPT
                      ![t].addresses = [i \in 1..Len(pending[t].chunks) |->
                                           Sha256(pending[t].chunks[i])]]
    /\ pc' = [pc EXCEPT ![t] = IF @ = "contentChunks" THEN "now" ELSE "load"]
    /\ UNCHANGED repoVars

\* now := time.Now().UTC()
AddNodeNow(t) ==
    /\ pc[t] = "now"
    /\ pending' = [pending EXCEPT
                      ![t].now = [clock |-> clock, wall |-> wall]]
    /\ pc' = [pc EXCEPT ![t] = "node"]
    /\ UNCHANGED <<repoVars, mu>>

\* the node is built and marshalled; nodeChunks, err := r.store.Put(data):
\* up to the loop
AddNodePutNode(t) ==
    /\ pc[t] = "node"
    /\ StorePutRecord(t,
                      NodeEnvelope([w |-> pending[t].now,
                                    addresses |-> pending[t].addresses],
                                   EmptyString, pending[t].content, NoteType,
                                   NoMeta),
                      "nodeChunks")

\* r.header.NodeCount++, the read
AddNodeLoadCount(t) ==
    /\ pc[t] = "load"
    /\ pending' = [pending EXCEPT ![t].count = header.NodeCount]
    /\ pc' = [pc EXCEPT ![t] = "store"]
    /\ UNCHANGED <<repoVars, mu>>

\* r.header.NodeCount++, the write
AddNodeStoreCount(t) ==
    /\ pc[t] = "store"
    /\ header' = [header EXCEPT !.NodeCount = pending[t].count + 1]
    /\ pc' = [pc EXCEPT ![t] = "time"]
    /\ UNCHANGED <<envVars, phase, file, index, diskHeader, log, lastHash,
                   clock, ops, liveNodes, deadNodes, mu, pending>>

\* time.Now().UTC().Unix(), the right-hand side of the next statement
AddNodeReadTime(t) ==
    /\ pc[t] = "time"
    /\ pending' = [pending EXCEPT ![t].now = Unix(World)]
    /\ pc' = [pc EXCEPT ![t] = "modified"]
    /\ UNCHANGED <<repoVars, mu>>

\* r.header.Modified = ..., the write
AddNodeStoreModified(t) ==
    /\ pc[t] = "modified"
    /\ header' = [header EXCEPT !.Modified = pending[t].now]
    /\ pc' = [pc EXCEPT ![t] = "seek"]
    /\ UNCHANGED <<envVars, phase, file, index, diskHeader, log, lastHash,
                   clock, ops, liveNodes, deadNodes, mu, pending>>

\* updateHeader: r.file.Seek(0, 0)
AddNodeSeek(t) ==
    /\ pc[t] = "seek"
    /\ filePos' = 0
    /\ pc' = [pc EXCEPT ![t] = "encodeModified"]
    /\ UNCHANGED <<phase, file, index, header, diskHeader, log, lastHash,
                   clock, ops, liveNodes, deadNodes, mu, pending, logPos,
                   logLens, wall, unsynced>>

\* updateHeader: binary.Write(r.file, binary.LittleEndian, &r.header)
\* encodes the header into a buffer of its own, field after field in the
\* order of the struct, and then writes the buffer.  No lock is held, so
\* another goroutine may store NodeCount or Modified between two of the
\* reads.  The fields up to Modified are read
AddNodeEncodeModified(t) ==
    /\ pc[t] = "encodeModified"
    /\ pending' = [pending EXCEPT ![t].buf = header]
    /\ pc' = [pc EXCEPT ![t] = "encodeCount"]
    /\ UNCHANGED <<repoVars, mu>>

\* binary.Write: NodeCount and the fields after it are read
AddNodeEncodeCount(t) ==
    /\ pc[t] = "encodeCount"
    /\ pending' = [pending EXCEPT
                      ![t].buf = [@ EXCEPT !.NodeCount = header.NodeCount,
                                           !.EdgeCount = header.EdgeCount]]
    /\ pc' = [pc EXCEPT ![t] = "write"]
    /\ UNCHANGED <<repoVars, mu>>

\* binary.Write: w.Write of the buffer, one write at the offset of the
\* handle, which moves on by its length
AddNodeWrite(t) ==
    /\ pc[t] = "write"
    /\ Install(WriteHeaderAt(World, pending[t].buf, filePos))
    /\ filePos' = filePos + HeaderSize
    /\ pc' = [pc EXCEPT ![t] = "sync"]
    /\ UNCHANGED <<phase, ops, liveNodes, deadNodes, mu, pending, logPos,
                   logLens, wall, unsynced>>

\* updateHeader: r.file.Sync() and the return
AddNodeSync(t) ==
    /\ pc[t] = "sync"
    /\ pc' = [pc EXCEPT ![t] = "record"]
    /\ UNCHANGED <<repoVars, mu, pending>>

\* r.txStore.RecordAction(ActionAddNode, ...) and the return of the id
AddNodeRecord(t) ==
    /\ pc[t] = "record"
    /\ Install(RecordAction(World, ActionAddNode,
                            [id |-> HexEncodeToString(
                                        pending[t].addresses[1]),
                             type |-> NoteType, meta |-> NoMeta]))
    /\ liveNodes' = liveNodes \cup
                        {HexEncodeToString(pending[t].addresses[1])}
    /\ pending' = [pending EXCEPT
                      ![t].id = HexEncodeToString(pending[t].addresses[1])]
    /\ pc' = [pc EXCEPT ![t] = "done"]
    /\ UNCHANGED <<envVars, phase, ops, deadNodes, mu>>

NextConcurrent ==
    \/ \E t \in Threads :
          \/ \E c \in BinaryContents : AddNodeCall(t, c)
          \/ AddNodePutContent(t)
          \/ AddNodePutChunk(t)
          \/ AddNodePutReturn(t)
          \/ AddNodeNow(t)
          \/ AddNodePutNode(t)
          \/ AddNodeLoadCount(t)
          \/ AddNodeStoreCount(t)
          \/ AddNodeReadTime(t)
          \/ AddNodeStoreModified(t)
          \/ AddNodeSeek(t)
          \/ AddNodeEncodeModified(t)
          \/ AddNodeEncodeCount(t)
          \/ AddNodeWrite(t)
          \/ AddNodeSync(t)
          \/ AddNodeRecord(t)
    \/ SecondPasses

SpecConcurrent == InitConcurrent /\ [][NextConcurrent]_vars

(***************************************************************************)
(* ChunkStore.Put and ChunkStore.Delete write by write, with a crash of    *)
(* the process or a loss of power between any two writes.  Both hold       *)
(* s.mutex for the whole call, record their action first and make their    *)
(* writes to the store file after it.  The record of the action is two     *)
(* writes to a file that is synced only by Close; the writes to the store  *)
(* file are followed by a Sync, one for each record written and each       *)
(* header rewritten.  A write the process made before it died stays in the *)
(* file and waits for the next Sync of the process started after it.       *)
(***************************************************************************)
\* the Action RecordAction builds and hashes
BuiltAction(actionType, payload) ==
    LET built == NewAction(actionType, payload, TimeNow(World), lastHash)
    IN  [built EXCEPT !.StateHash = calculateStateHash(built)]

\* s.mutex.Lock() and RecordAction up to the first write of writeAction: the
\* length prefix of the action is appended
LogWriteLength(t, next) ==
    /\ phase = "open" /\ ops < MaxCrashOps
    /\ pc[t] = "idle" /\ mu = 0
    /\ mu' = t
    /\ log' = Append(log, LengthOnlyRecord)
    /\ pc' = [pc EXCEPT ![t] = next]
    /\ ops' = ops + 1
    /\ UNCHANGED <<envVars, phase, file, index, header, diskHeader, lastHash,
                   clock, liveNodes, deadNodes>>

\* RecordAction inside Put and Delete, the second write of writeAction, the
\* JSON text after its length, and the update of lastHash
WriteActionData(t) ==
    /\ pc[t] \in {"putLog", "deleteLog"}
    /\ log' = [log EXCEPT ![Len(log)] = MarshalAction(pending[t].action)]
    /\ lastHash' = ActionHash(pending[t].action)
    /\ pc' = [pc EXCEPT ![t] = IF @ = "putLog" THEN "put" ELSE "delete"]
    /\ UNCHANGED <<envVars, phase, file, index, header, diskHeader, clock,
                   ops, liveNodes, deadNodes, mu, pending>>

\* Put: the lock, the split and the length prefix of its action
PutWriteLength(t, content) ==
    /\ LogWriteLength(t, "putLog")
    /\ pending' = [pending EXCEPT
                      ![t].content = content,
                      ![t].chunks = Split(content),
                      ![t].i = 1,
                      ![t].action =
                          BuiltAction(ActionPutContent,
                                      [size |-> ByteLen(content),
                                       nchunks |-> Len(Split(content))])]

\* Put, a pass of the loop: incrementRefCount of a chunk that is indexed, up
\* to the write of the header, its error ending the call, or writeChunk up
\* to the write of the header
PutChunkHeader(t) ==
    /\ pc[t] = "put"
    /\ pending[t].i <= Len(pending[t].chunks)
    /\ LET chunk == pending[t].chunks[pending[t].i]
           hashStr == HexEncodeToString(Sha256(chunk))
           indexed == hashStr \in DOMAIN index
           r == PutChunk(World, chunk)
       IN  IF indexed
           THEN /\ file' = r.w.file
                /\ IF r.err
                   THEN /\ pc' = [pc EXCEPT ![t] = "idle"]
                        /\ pending' = [pending EXCEPT ![t] = NoCall]
                        /\ mu' = 0
                        /\ UNCHANGED unsynced
                   ELSE /\ pc' = [pc EXCEPT ![t] = "putCount"]
                        /\ unsynced' = HeaderWrite(unsynced, file,
                                                   index[hashStr])
                        /\ UNCHANGED <<pending, mu>>
           ELSE /\ file' = writeChunkFails(file, chunk, Sha256(chunk), "data")
                /\ pc' = [pc EXCEPT ![t] = "putChunk"]
                /\ unsynced' = HeaderWrite(unsynced, file, Len(file) + 1)
                /\ UNCHANGED <<pending, mu>>
    /\ UNCHANGED <<logPos, logLens, filePos, wall, phase, index, header,
                   diskHeader, log, lastHash, clock, ops, liveNodes,
                   deadNodes>>

\* incrementRefCount, the rest: s.file.Sync() and the return to the loop
PutCountSync(t) ==
    /\ pc[t] = "putCount"
    /\ unsynced' = Synced
    /\ pending' = [pending EXCEPT ![t].i = @ + 1]
    /\ pc' = [pc EXCEPT ![t] = "put"]
    /\ UNCHANGED <<logPos, logLens, filePos, wall, phase, file, index,
                   header, diskHeader, log, lastHash, clock, ops, liveNodes,
                   deadNodes, mu>>

\* writeChunk, the write of the data of the record
PutChunkData(t) ==
    /\ pc[t] = "putChunk"
    /\ file' = [file EXCEPT
                   ![Len(file)].data = pending[t].chunks[pending[t].i]]
    /\ unsynced' = DataWrite(unsynced, Len(file))
    /\ pc' = [pc EXCEPT ![t] = "putSync"]
    /\ UNCHANGED <<logPos, logLens, filePos, wall, phase, index, header,
                   diskHeader, log, lastHash, clock, ops, liveNodes,
                   deadNodes, mu, pending>>

\* writeChunk, the rest, and the rest of the pass: s.file.Sync() and the
\* index entry of the new record
PutChunkSync(t) ==
    /\ pc[t] = "putSync"
    /\ unsynced' = Synced
    /\ index' = Assign(index,
                       HexEncodeToString(
                           Sha256(pending[t].chunks[pending[t].i])),
                       Len(file))
    /\ pending' = [pending EXCEPT ![t].i = @ + 1]
    /\ pc' = [pc EXCEPT ![t] = "put"]
    /\ UNCHANGED <<logPos, logLens, filePos, wall, phase, file, header,
                   diskHeader, log, lastHash, clock, ops, liveNodes,
                   deadNodes, mu>>

\* Put returns: the deferred s.mutex.Unlock()
PutReturn(t) ==
    /\ pc[t] = "put"
    /\ pending[t].i > Len(pending[t].chunks)
    /\ pc' = [pc EXCEPT ![t] = "idle"]
    /\ pending' = [pending EXCEPT ![t] = NoCall]
    /\ mu' = 0
    /\ UNCHANGED repoVars

\* Delete: the lock and the length prefix of its action
DeleteWriteLength(t, addresses) ==
    /\ LogWriteLength(t, "deleteLog")
    /\ pending' = [pending EXCEPT
                      ![t].addresses = addresses,
                      ![t].i = 1,
                      ![t].action =
                          BuiltAction(ActionDeleteContent,
                                      [addresses |-> addresses])]

\* Delete, a pass of the loop: the address is looked up, and one with no
\* key is passed over; decrementRefCount up to the write of the header, its
\* error ending the call
DeleteChunk(t) ==
    /\ pc[t] = "delete"
    /\ pending[t].i <= Len(pending[t].addresses)
    /\ LET key == DeleteKey(index, pending[t].addresses[pending[t].i])
           r == DeleteChunks(World, <<pending[t].addresses[pending[t].i]>>, 1)
       IN  /\ file' = r.w.file
           /\ IF r.err
              THEN /\ pc' = [pc EXCEPT ![t] = "idle"]
                   /\ pending' = [pending EXCEPT ![t] = NoCall]
                   /\ mu' = 0
                   /\ UNCHANGED unsynced
              ELSE IF key \in DOMAIN index
              THEN /\ pc' = [pc EXCEPT ![t] = "deleteSync"]
                   /\ unsynced' = HeaderWrite(unsynced, file, index[key])
                   /\ UNCHANGED <<pending, mu>>
              ELSE /\ pending' = [pending EXCEPT ![t].i = @ + 1]
                   /\ UNCHANGED <<pc, mu, unsynced>>
    /\ UNCHANGED <<logPos, logLens, filePos, wall, phase, index, header,
                   diskHeader, log, lastHash, clock, ops, liveNodes,
                   deadNodes>>

\* decrementRefCount, the rest: s.file.Sync(), and at the count 0 the key
\* and its equivalent keys leave the index
DeleteSync(t) ==
    /\ pc[t] = "deleteSync"
    /\ unsynced' = Synced
    /\ LET key == DeleteKey(index, pending[t].addresses[pending[t].i])
           gone == {key} \cup EquivalentKeys(key)
       IN  index' = IF file[index[key]].ref = 0
                    THEN [x \in (DOMAIN index) \ gone |-> index[x]]
                    ELSE index
    /\ pending' = [pending EXCEPT ![t].i = @ + 1]
    /\ pc' = [pc EXCEPT ![t] = "delete"]
    /\ UNCHANGED <<logPos, logLens, filePos, wall, phase, file, header,
                   diskHeader, log, lastHash, clock, ops, liveNodes,
                   deadNodes, mu>>

\* Delete returns: the deferred s.mutex.Unlock()
DeleteReturn(t) ==
    /\ pc[t] = "delete"
    /\ pending[t].i > Len(pending[t].addresses)
    /\ pc' = [pc EXCEPT ![t] = "idle"]
    /\ pending' = [pending EXCEPT ![t] = NoCall]
    /\ mu' = 0
    /\ UNCHANGED repoVars

\* the program is started again on the store file: the index is rebuilt by
\* loadIndex
RestartStore(f) ==
    /\ file' = f
    /\ index' = loadIndex(f, 0, EmptyIndex)
    /\ pc' = [t \in Threads |-> "idle"]
    /\ pending' = [t \in Threads |-> NoCall]
    /\ mu' = 0
    /\ UNCHANGED <<logPos, logLens, filePos, wall, phase, header, diskHeader,
                   clock, ops, liveNodes, deadNodes>>

\* and on the log: the last hash is read by readLastAction
RestartLog(lg) ==
    /\ log' = lg
    /\ \E last \in readLastAction(lg) : lastHash' = last.hash

\* the process dies and is started again: the files hold every write made,
\* and NewStore syncs none of them
CrashRestart ==
    /\ phase = "open"
    /\ RestartStore(file)
    /\ RestartLog(log)
    /\ UNCHANGED unsynced

\* what a loss of power can leave of the log, no byte of which was synced:
\* a number of its records, and after them nothing or the start of the next
LogsAfterPowerLoss(lg) ==
    {SubSeq(lg, 1, n) : n \in 0..Len(lg)}
        \cup {Append(SubSeq(lg, 1, n), torn) :
                 n \in 0..(Len(lg) - 1),
                 torn \in {LengthOnlyRecord, TruncatedRecord}}

\* what a loss of power can leave of the store file: every write that was
\* followed by a Sync, and of the writes made since the last Sync, by this
\* process or by one that died before it, any
FilesAfterPowerLoss(f) ==
    {DiskFile(f, g) : g \in DiskSegments(f, unsynced, Len(f))}

\* the power fails and the program is started again
PowerLossRestart ==
    /\ phase = "open"
    /\ \E f \in FilesAfterPowerLoss(file) : RestartStore(f)
    /\ \E lg \in LogsAfterPowerLoss(log) : RestartLog(lg)
    /\ unsynced' = Synced

\* the caller that is followed: Put and Delete hold s.mutex from their first
\* statement to their return, so the calls of other goroutines come before
\* or after
Caller == CHOOSE t \in Threads : TRUE

\* the contents put and the addresses deleted
CrashContents == {Bin(<<1>>), Bin(<<0, 1>>)}
CrashAddresses == {Addresses(c) : c \in CrashContents}

NextCrash ==
    \/ \E t \in {Caller} :
          \/ \E c \in CrashContents : PutWriteLength(t, c)
          \/ WriteActionData(t)
          \/ PutChunkHeader(t)
          \/ PutCountSync(t)
          \/ PutChunkData(t)
          \/ PutChunkSync(t)
          \/ PutReturn(t)
          \/ \E a \in CrashAddresses : DeleteWriteLength(t, a)
          \/ DeleteChunk(t)
          \/ DeleteSync(t)
          \/ DeleteReturn(t)
    \/ CrashRestart
    \/ PowerLossRestart

SpecCrash == InitConcurrent /\ [][NextCrash]_vars

(***************************************************************************)
(* Open of a repository file whose chunk area was damaged: the file is the *)
(* header of the repository, then chunk records and runs of stray bytes.   *)
(* Offsets are in bytes here; a record of this file also says whether the  *)
(* checksum of its header matches.                                         *)
(***************************************************************************)
\* the longest run of stray bytes and the most segments of a damaged file
MaxStray == 4
MaxSegments == 3

Segments ==
    {[hash |-> Sha256(c), data |-> c, ref |-> n, sum |-> s] :
        c \in {Bin(<<1>>), Bin(<<0, 1>>)}, n \in 0..1, s \in {"ok", "bad"}}
        \cup {[k |-> "stray", n |-> n] : n \in 1..MaxStray}

DamagedFiles == UNION {[1..n -> Segments] : n \in 1..MaxSegments}

InitScan ==
    /\ wall = 0
    /\ unsynced = Synced
    /\ phase = "unopened"
    /\ file \in DamagedFiles
    /\ index = EmptyIndex
    /\ header = NoHeader
    /\ diskHeader = NewHeader(wall)
    /\ log = <<>>
    /\ lastHash = Zero32
    /\ clock = 0
    /\ ops = 0
    /\ liveNodes = {}
    /\ deadNodes = {}
    /\ mu = 0
    /\ pc = [t \in Threads |-> "idle"]
    /\ pending = [t \in Threads |-> NoAction]
    /\ logPos = LogStart
    /\ logLens = <<>>
    /\ filePos = 0

\* Open: the checks of the header, then NewStore, whose loadIndex returns an
\* error only for a read that fails
ScanOpen ==
    /\ phase \in {"unopened", "closed"}
    /\ OpenCheck(diskHeader)
    /\ phase' = "open"
    /\ header' = diskHeader
    /\ index' = loadIndex(file, 0, EmptyIndex)
    /\ UNCHANGED <<file, diskHeader, log, lastHash, clock, ops, liveNodes,
                   deadNodes, threadVars>>

\* Close of the repository opened on the file
ScanClose ==
    /\ phase = "open"
    /\ phase' = "closed"
    /\ UNCHANGED <<file, index, header, diskHeader, log, lastHash, clock, ops,
                   liveNodes, deadNodes, threadVars>>

NextScan == ScanOpen \/ ScanClose

SpecScan == InitScan /\ [][NextScan]_vars

(***************************************************************************)
(* GetHistory called from several goroutines on one ActionStore.  Each     *)
(* call holds as.mu.RLock(), which any number of readers hold together,    *)
(* and then seeks and reads on as.file.  The offset belongs to the handle, *)
(* so the Seek and the Reads of the callers move the same offset; each     *)
(* Seek and each Read is one system call, and the calls of different       *)
(* goroutines interleave.  mu is 0 when free, the thread that holds the    *)
(* write lock, or minus the number of readers.                             *)
(***************************************************************************)
\* a call of GetHistory: the actions read so far, the length prefix read
\* last, the bytes the ReadFull under way has read (got) and has yet to
\* read (need), and the size of the log when the call took its lock
NoRead ==
    [actions |-> <<>>, length |-> 0, err |-> FALSE, size |-> 0, need |-> 4,
     got |-> 0]

\* the numbers of bytes json.Marshal writes for the actions that are
\* recorded: two lengths, so that records are of one length or of two
ActionLens == {242, 246}

\* a number four bytes of the log make that are not the length prefix of a
\* record: the "}" that ends a JSON text and the first three bytes of the
\* prefix after it, in little-endian order.  Every such number is more
\* than the bytes the Reads of one call return, which are those of a log
\* of MaxRecords records once for each Seek of a caller; this one stands
\* for them
TooLong == 125 + 256 * 242

Min(a, b) == IF a < b THEN a ELSE b

\* the byte offset of the length prefix of record j of the log, and for j
\* past the last record the end of the file
RECURSIVE RecordStart(_, _)
RecordStart(lens, j) ==
    IF j = 1 THEN 0 ELSE RecordStart(lens, j - 1) + 4 + lens[j - 1]

LogEnd(lens) == RecordStart(lens, Len(lens) + 1)

InitHistory ==
    /\ wall = 0
    /\ unsynced = Synced
    /\ phase = "open"
    /\ file = <<>>
    /\ index = EmptyIndex
    /\ header = NewHeader(wall)
    /\ diskHeader = NewHeader(wall)
    /\ log = <<>>
    /\ lastHash = Zero32
    /\ clock = 0
    /\ ops = 0
    /\ liveNodes = {}
    /\ deadNodes = {}
    /\ mu = 0
    /\ pc = [t \in Threads |-> "idle"]
    /\ pending = [t \in Threads |-> NoRead]
    /\ logPos = LogStart
    /\ logLens = <<>>
    /\ filePos = 0

\* as.mu.RLock() returns when no caller holds the write lock
MuRLock(m) == m <= 0

\* RecordAction, whole: it holds the write lock from start to end, so no
\* reader and no other writer runs inside it.  The file is opened with
\* O_APPEND: the write goes to the end and leaves the offset there.
HistoryRecord(t, actionType, n) ==
    /\ pc[t] = "idle" /\ MuLock(mu)
    /\ ops < MaxOps /\ Len(log) < MaxRecords
    /\ Install(RecordAction(World, actionType, [thread |-> t]))
    /\ logLens' = Append(logLens, n)
    /\ logPos' = LogEnd(Append(logLens, n))
    /\ ops' = ops + 1
    /\ UNCHANGED <<phase, liveNodes, deadNodes, mu, pc, pending, filePos,
                   wall, unsynced>>

\* GetHistory is called: as.mu.RLock()
HistoryRLock(t) ==
    /\ pc[t] = "idle" /\ MuRLock(mu)
    /\ ops < MaxOps
    /\ mu' = mu - 1
    /\ pc' = [pc EXCEPT ![t] = "seek"]
    /\ pending' = [pending EXCEPT ![t] = [NoRead EXCEPT !.size = Len(log)]]
    /\ ops' = ops + 1
    /\ UNCHANGED <<phase, file, index, header, diskHeader, log, lastHash,
                   clock, liveNodes, deadNodes, envVars>>

\* as.file.Seek(0, io.SeekStart)
HistorySeek(t) ==
    /\ pc[t] = "seek"
    /\ logPos' = LogStart
    /\ pc' = [pc EXCEPT ![t] = "length"]
    /\ UNCHANGED <<phase, file, index, header, diskHeader, log, lastHash,
                   clock, ops, liveNodes, deadNodes, mu, pending, logLens,
                   filePos, wall, unsynced>>

\* io.ReadFull is a loop of Reads on the handle, each one system call that
\* returns the bytes from the offset on, as many as are asked for or as are
\* left in the file, and moves the offset past them.  A Read at the end of
\* the file returns io.EOF, which ReadFull returns when it has read nothing
\* and turns into io.ErrUnexpectedEOF when it has.  Between two Reads of a
\* ReadFull the other callers seek and read on the same handle.
\*
\* readAction, binary.Read of the length prefix, one Read of its ReadFull
\* of four bytes.  io.EOF ends the loop of GetHistory with no error,
\* io.ErrUnexpectedEOF is returned by GetHistory.  Four bytes read by one
\* Read at the prefix of a record are the length of that record; any other
\* four bytes are bytes of a JSON text, or of one and of a prefix, or come
\* from two places of the file.
HistoryReadLength(t) ==
    /\ pc[t] = "length"
    /\ LET left == LogEnd(logLens) - logPos
           n == Min(pending[t].need, left)
           at == {j \in 1..Len(logLens) : RecordStart(logLens, j) = logPos}
           length == IF pending[t].got = 0 /\ at # {}
                     THEN logLens[CHOOSE j \in at : TRUE] ELSE TooLong
       IN  IF left = 0
           THEN /\ pending' = [pending EXCEPT ![t].err = pending[t].got > 0]
                /\ pc' = [pc EXCEPT ![t] = "unlock"]
                /\ UNCHANGED logPos
           ELSE IF n < pending[t].need
           THEN /\ pending' = [pending EXCEPT ![t].need = @ - n,
                                              ![t].got = @ + n]
                /\ logPos' = logPos + n
                /\ UNCHANGED pc
           ELSE /\ pending' = [pending EXCEPT ![t].length = length,
                                              ![t].need = length,
                                              ![t].got = 0]
                /\ logPos' = logPos + n
                /\ pc' = [pc EXCEPT ![t] = "data"]
    /\ UNCHANGED <<phase, file, index, header, diskHeader, log, lastHash,
                   clock, ops, liveNodes, deadNodes, mu, logLens, filePos,
                   wall, unsynced>>

\* readAction, one Read of io.ReadFull of as many bytes as the length says,
\* and json.Unmarshal of them once they are read.  io.EOF ends the loop of
\* GetHistory with no error, io.ErrUnexpectedEOF is returned by GetHistory.
\* The bytes decode when they are the whole JSON text of a record: one Read
\* returned them, they start at its first data byte and are as many as it
\* has.  Bytes from two places of the file are the end of the last record
\* and bytes that do not follow it, which is no JSON text.
HistoryReadData(t) ==
    /\ pc[t] = "data"
    /\ LET left == LogEnd(logLens) - logPos
           n == Min(pending[t].need, left)
           whole == {j \in 1..Len(logLens) :
                        /\ pending[t].got = 0
                        /\ RecordStart(logLens, j) + 4 = logPos
                        /\ logLens[j] = pending[t].length}
       IN  IF left = 0
           THEN /\ pending' = [pending EXCEPT ![t].err = pending[t].got > 0]
                /\ pc' = [pc EXCEPT ![t] = "unlock"]
                /\ UNCHANGED logPos
           ELSE IF n < pending[t].need
           THEN /\ pending' = [pending EXCEPT ![t].need = @ - n,
                                              ![t].got = @ + n]
                /\ logPos' = logPos + n
                /\ UNCHANGED pc
           ELSE IF whole # {}
           THEN /\ pending' = [pending EXCEPT
                                  ![t].actions =
                                      Append(@, UnmarshalAction(
                                                    log[CHOOSE j \in whole :
                                                            TRUE])),
                                  ![t].need = 4,
                                  ![t].got = 0]
                /\ logPos' = logPos + n
                /\ pc' = [pc EXCEPT ![t] = "length"]
           ELSE /\ pending' = [pending EXCEPT ![t].err = TRUE]
                /\ logPos' = logPos + n
                /\ pc' = [pc EXCEPT ![t] = "unlock"]
    /\ UNCHANGED <<phase, file, index, header, diskHeader, log, lastHash,
                   clock, ops, liveNodes, deadNodes, mu, logLens, filePos,
                   wall, unsynced>>

\* the deferred as.mu.RUnlock(); GetHistory returns its actions or an error
HistoryReturn(t) ==
    /\ pc[t] = "unlock"
    /\ mu' = mu + 1
    /\ pc' = [pc EXCEPT ![t] = "returned"]
    /\ UNCHANGED <<repoVars, pending>>

\* the caller takes the result
HistoryDone(t) ==
    /\ pc[t] = "returned"
    /\ pc' = [pc EXCEPT ![t] = "idle"]
    /\ pending' = [pending EXCEPT ![t] = NoRead]
    /\ UNCHANGED <<repoVars, mu>>

NextHistory ==
    \/ \E t \in Threads, ty \in ActionTypes, n \in ActionLens :
           HistoryRecord(t, ty, n)
    \/ \E t \in Threads : HistoryRLock(t)
    \/ \E t \in Threads : HistorySeek(t)
    \/ \E t \in Threads : HistoryReadLength(t)
    \/ \E t \in Threads : HistoryReadData(t)
    \/ \E t \in Threads : HistoryReturn(t)
    \/ \E t \in Threads : HistoryDone(t)

SpecHistory == InitHistory /\ [][NextHistory]_vars

(***************************************************************************)
(* Properties.                                                             *)
(***************************************************************************)
\* the reference count of the record an address resolves to, 0 when the
\* address does not resolve
RefCount(w, addr) ==
    IF Resolve(w.index, addr).ok
    THEN w.file[Resolve(w.index, addr).off].ref ELSE 0

\* the "chunks" list inside the envelope that was stored for a node id
StoredChunks(w, id) ==
    LET r == Resolve(w.index, id)
        d == readChunk(w.file, r.off)
        envelope == IF d.k = "frag" THEN d.of ELSE d
    IN  IF r.ok /\ envelope.k = "node"
        THEN Chunks(UnmarshalNode(envelope).node.Meta) ELSE <<>>

\* the addresses a "chunks" list names
ChunkAddresses(chunkStrs) ==
    [i \in 1..Len(chunkStrs) |-> HexDecodeString(chunkStrs[i]).v]

\* every id that is or was a node, or that a caller may choose for one
NodeNames == liveNodes \cup deadNodes \cup CallerIDs

\* every id the model's callers can name in the current state
KnownIDs == NodeNames \cup ListedIDs

\* no link GetLinks returns, for any node, has the id as source or target
NoLinksOf(w, id) ==
    \A n \in NodeNames \cup {id}, order \in RangeOrders(w) :
        LET links == GetLinks(w, n, order)
        IN  \A i \in 1..Len(links) :
                links[i].Source # id /\ links[i].Target # id

\* C1: in every reachable state of the chunk store, for every payload
\* (empty and multi-chunk included), Get of the addresses that Put returns
\* for the payload succeeds and returns exactly the payload.
C1_GetPutRoundTrip ==
    \A c \in StoreContents :
        LET r == Put(World, c)
            g == Get(r.w, r.addresses)
        IN  ~g.err /\ g.data = c

\* C2: GetNode of the id AddNode returns yields the content, the type and
\* the caller's metadata plus the chunks list, also when the envelope is
\* larger than one chunk.
C2_GetNodeAfterAddNode ==
    phase = "open" =>
        \A c \in NodeContents, ty \in NodeTypes, m \in {NoMeta, WeightMeta} :
            LET r == AddNode(World, c, ty, m)
                g == GetNode(r.w, r.id)
            IN  /\ ~r.err /\ ~g.err
                /\ g.node.Content = c /\ g.node.Type = ty
                /\ UserMeta(g.node.Meta) = m /\ HasChunks(g.node.Meta)

\* C3: every id of an added node that GetNode resolves before Close still
\* resolves, to the same node, after Close and Open.
C3_NodesSurviveReopen ==
    phase = "open" =>
        \A id \in liveNodes, last \in readLastAction(log) :
            LET before == GetNode(World, id)
                after == GetNode(Open(World, last), id)
            IN  ~before.err => ~after.err /\ after.node = before.node

\* C4: a node id that DeleteNode deleted, and that has not been added again,
\* is not found by GetNode.
C4_DeletedNodeNotFound ==
    phase = "open" => \A id \in deadNodes : GetNode(World, id).err

\* C5: DeleteNode of a node lowers the reference count of every chunk in the
\* node's chunks list by one; a chunk whose count reaches zero no longer
\* resolves, a chunk that is still referenced does, and the chunks of every
\* other node stay resolvable.
C5_DeleteNodeReleasesChunks ==
    phase = "open" =>
        \A id \in liveNodes : \A orders \in CascadeOrders(World, id) :
            LET r == DeleteNode(World, id, orders)
                mine == ChunkAddresses(StoredChunks(World, id))
            IN  ~r.err =>
                /\ \A i \in 1..Len(mine) :
                       /\ RefCount(World, mine[i]) > 0
                       /\ RefCount(r.w, mine[i]) = RefCount(World, mine[i]) - 1
                       /\ (RefCount(r.w, mine[i]) = 0)
                              = Get(r.w, <<mine[i]>>).err
                /\ \A other \in liveNodes \ {id} :
                       LET theirs == ChunkAddresses(StoredChunks(World, other))
                       IN  /\ GetNode(r.w, other) = GetNode(World, other)
                           /\ \A j \in 1..Len(theirs) :
                                  ~Get(r.w, <<theirs[j]>>).err

\* C6: after a successful DeleteNode of an id, GetLinks returns, for any
\* node, no link that has the id as its source or its target.  The calls
\* are those of DeleteNode on a node that was added, for every order of the
\* ranges of its cascade.
C6_NoLinksAfterDeleteNode ==
    phase = "open" =>
        \A id \in liveNodes : \A orders \in CascadeOrders(World, id) :
            \A r \in {DeleteNode(World, id, orders)} :
                ~r.err => NoLinksOf(r.w, id)

\* C7: AddLink with a source or a target that is not the id of an existing
\* node returns an error and changes nothing: no link stored, edge count
\* unchanged, no action appended.
C7_AddLinkRejectsMissingEndpoint ==
    phase = "open" =>
        \A s \in KnownIDs, t \in KnownIDs, ty \in LinkTypes :
            (s \notin liveNodes \/ t \notin liveNodes) =>
                LET r == AddLink(World, s, t, ty, WeightMeta)
                IN  r.err /\ r.w = World

\* C8: for every node GetNode returns with a chunks list, Get of the chunks
\* list succeeds and returns the node's content, whatever operations were
\* applied to other ids.
C8_ChunksReproduceContent ==
    phase = "open" =>
        \A id \in KnownIDs :
            LET g == GetNode(World, id)
                c == Get(World, ChunkAddresses(Chunks(g.node.Meta)))
            IN  ~g.err /\ HasChunks(g.node.Meta) =>
                    ~c.err /\ c.data = g.node.Content

\* C9: under every interleaving of concurrent RecordAction calls in one
\* session, every action of the log after the first has as its PrevHash the
\* hash of the action written immediately before it.
C9_ChainUnderInterleaving ==
    \A i \in 2..Len(log) :
        UnmarshalAction(log[i]).PrevHash
            = ActionHash(UnmarshalAction(log[i - 1]))

\* two threads have written consecutive actions, and a third call is blocked
\* on the mutex while another thread holds it
C9_Witness ==
    /\ Len(log) >= 2
    /\ log[1].Payload.thread # log[2].Payload.thread
    /\ \E t \in Threads : pc[t] = "lock" /\ mu \notin {0, t}
    /\ log[2].PrevHash = ActionHash(UnmarshalAction(log[1]))

\* C10: after any number of recorded actions VerifyHistory returns true.
C10_VerifyHistoryTrue ==
    phase = "open" => VerifyHistory(log)

\* the ways the stored bytes of one record are altered: one JSON field gets
\* another value, or the text stops being JSON
TamperKinds ==
    {"Type", "Payload", "Timestamp", "PrevHash", "StateHash", "garbled"}

Tamper(lg, i, kind) ==
    [lg EXCEPT ![i] =
        CASE kind = "Type" -> [@ EXCEPT !.Type = "Tampered"]
          [] kind = "Payload" -> [@ EXCEPT !.Payload = [tampered |-> TRUE]]
          [] kind = "Timestamp" -> [@ EXCEPT !.Timestamp.nsec = @ + 1]
          [] kind = "PrevHash" ->
                 [@ EXCEPT !.PrevHash = Sha256([k |-> "tampered"])]
          [] kind = "StateHash" ->
                 [@ EXCEPT !.StateHash = Sha256([k |-> "tampered"])]
          [] kind = "garbled" -> [k |-> "garbled"]]

\* C11: altering the stored bytes of any one record of the log, the last
\* record included, makes a following VerifyHistory return false.
C11_TamperDetected ==
    \A i \in 1..Len(log), kind \in TamperKinds :
        ~VerifyHistory(Tamper(log, i, kind))

\* C12: when a repository whose log is non-empty and intact is closed and
\* opened again, the last-known hash is the self hash of the last action of
\* the file, the first action recorded after that has it as its PrevHash,
\* and VerifyHistory is true over the whole log.
C12_ReopenRestoresLastHash ==
    phase = "open" /\ Len(log) > 0 /\ VerifyHistory(log) =>
        \A last \in readLastAction(log) :
            LET o == Open(World, last)
                r == RecordAction(o, ActionPutContent, [size |-> 1])
            IN  /\ o.lastHash = ActionHash(UnmarshalAction(log[Len(log)]))
                /\ r.log[Len(r.log)].PrevHash = o.lastHash
                /\ VerifyHistory(r.log)

\* the contents Put is called with again: those of the store operations and
\* one that splits into the same chunk twice
RepeatedContents == StoreContents \cup {Bin(<<0, 0>>)}

\* the index keys Put looks up for the chunks of content
ChunkKeys(content) ==
    [i \in 1..Len(Split(content)) |->
        HexEncodeToString(Sha256(Split(content)[i]))]

Occurrences(s, x) == Cardinality({i \in 1..Len(s) : s[i] = x})

AllIndexed(content) ==
    \A i \in 1..Len(ChunkKeys(content)) : ChunkKeys(content)[i] \in DOMAIN index

\* C13: Put of a content whose chunks are all indexed writes no new chunk
\* record and leaves the set ListChunks returns unchanged, and the stored
\* reference count of each of its chunks goes up by the number of times the
\* chunk occurs in the content.
C13_PutIndexedOnlyCounts ==
    \A content \in RepeatedContents :
        AllIndexed(content) =>
            LET keys == ChunkKeys(content)
                r == Put(World, content).w
            IN  /\ Len(r.file) = Len(file)
                /\ \A order \in FirstOrders(World) :
                       {ListChunks(r, order)[i] :
                            i \in 1..Len(ListChunks(r, order))}
                       = {ListChunks(World, order)[i] :
                            i \in 1..Len(ListChunks(World, order))}
                /\ \A i \in 1..Len(keys) :
                       r.file[index[keys[i]]].ref
                           = file[index[keys[i]]].ref
                                 + Occurrences(keys, keys[i])

\* a Put has found a chunk indexed (its record counts two references), and
\* the chunk that occurs twice in one content is indexed
C13_Witness ==
    /\ AllIndexed(Bin(<<0, 0>>))
    /\ Occurrences(ChunkKeys(Bin(<<0, 0>>)), ChunkKeys(Bin(<<0, 0>>))[1]) = 2
    /\ \E content \in StoreContents :
           /\ Len(ChunkKeys(content)) > 0 /\ AllIndexed(content)
           /\ \E i \in 1..Len(ChunkKeys(content)) :
                  file[index[ChunkKeys(content)[i]]].ref >= 2

\* C14: in every store state ListChunks returns at most one address for each
\* chunk record (file offset), under whatever keys the record is indexed.
C14_OneAddressPerRecord ==
    \A order \in FirstOrders(World) :
        LET listed == ListChunks(World, order)
        IN  \A i \in 1..Len(listed), j \in 1..Len(listed) :
                i # j => Resolve(index, listed[i]).off
                             # Resolve(index, listed[j]).off

\* C15: Open succeeds exactly when the stored magic is "MEMEX01" and the
\* stored major format version is that of the running build, whatever the
\* stored minor version; otherwise it fails and there is no repository.
C15_OpenChecksMagicAndMajor ==
    /\ phase = "open" =>
           /\ diskHeader.Magic = "MEMEX01"
           /\ diskHeader.FormatVersion = CurrentVersion.Major
           /\ header = diskHeader
    /\ phase = "failed" =>
           /\ ~(/\ diskHeader.Magic = "MEMEX01"
                /\ diskHeader.FormatVersion = CurrentVersion.Major)
           /\ header = NoHeader

\* Open has succeeded on a file whose minor version is not that of the build
C15_Witness ==
    /\ phase = "open"
    /\ diskHeader.FormatMinor # CurrentVersion.Minor
    /\ header = diskHeader

\* C16: after Close every repository operation fails with an error and
\* changes nothing.
C16_ClosedRejectsEveryOperation ==
    phase = "closed" =>
        \A id \in KnownIDs, other \in KnownIDs, order \in FirstOrders(World) :
            /\ \A c \in NodeContents :
                   LET r == ClosedAddNode(World, c, NoteType, NoMeta)
                   IN  r.err /\ r.w = World
            /\ ClosedGetNode(World, id).err
            /\ ClosedGet(World, <<HexDecodeString(id).v>>).err
            /\ LET r == ClosedDeleteNode(World, id, <<order>>)
               IN  r.err /\ r.w = World
            /\ ClosedListNodes(World, order).err
            /\ LET r == ClosedAddLink(World, id, other, TestType, WeightMeta)
               IN  r.err /\ r.w = World
            /\ ClosedGetLinks(World, id, order).err
            /\ LET r == ClosedDeleteLink(World, id, other, TestType, order)
               IN  r.err /\ r.w = World

\* C17: for every interleaving of concurrent AddNode calls that all succeed,
\* the persisted node counter ends higher by the number of calls and every
\* added node is retrievable, as after the calls in some sequential order.
C17_ConcurrentAddNodeSerialized ==
    (\A t \in Threads : pc[t] = "done") =>
        /\ diskHeader.NodeCount = NumThreads
        /\ \A t \in Threads : ~GetNode(World, pending[t].id).err

\* The world a call leaves when the RecordAction that is its last step
\* fails in writeAction: w is the world the call leaves when that step
\* succeeds; the log is what the failed writeAction leaves and lastHash was
\* not updated.
LastRecordFailed(w, at) ==
    LET a == UnmarshalAction(w.log[Len(w.log)])
    IN  [w EXCEPT !.log = writeActionFails(SubSeq(@, 1, Len(@) - 1), a, at),
                  !.lastHash = a.PrevHash]

\* the call that left w recorded an action of the type as its last step
RecordedLast(w, actionType) ==
    Len(w.log) > Len(log) /\ w.log[Len(w.log)].Type = actionType

\* the index, the reference counts and the persisted counters of w are
\* those of the current state
SameStoreAndCounters(w) ==
    /\ w.index = index
    /\ Len(w.file) = Len(file)
    /\ \A off \in 1..Len(file) : w.file[off].ref = file[off].ref
    /\ w.diskHeader.NodeCount = diskHeader.NodeCount
    /\ w.diskHeader.EdgeCount = diskHeader.EdgeCount

\* C18: when recording the action fails during AddNode, AddNodeWithID,
\* DeleteNode, AddLink or DeleteLink, the mutation is aborted: the chunk
\* index, the stored reference counts and the persisted header counters
\* are as before the call.
C18_RecordFailureAborts ==
    phase = "open" =>
        \A at \in RecordFailures :
            /\ \A c \in NodeContents :
                   LET r == AddNode(World, c, NoteType, NoMeta)
                   IN  RecordedLast(r.w, ActionAddNode) =>
                           SameStoreAndCounters(LastRecordFailed(r.w, at))
            /\ \A id \in CallerIDs, c \in IDContents :
                   LET r == AddNodeWithID(World, id, c, NoteType, WeightMeta)
                   IN  RecordedLast(r.w, ActionAddNode) =>
                           SameStoreAndCounters(LastRecordFailed(r.w, at))
            /\ \A s \in KnownIDs, t \in KnownIDs :
                   /\ LET r == AddLink(World, s, t, TestType, WeightMeta)
                      IN  RecordedLast(r.w, ActionAddLink) =>
                              SameStoreAndCounters(LastRecordFailed(r.w, at))
                   /\ \A order \in RangeOrders(World) :
                          LET w == DeleteLink(World, s, t, TestType, order).w
                          IN  RecordedLast(w, ActionDeleteLink) =>
                                  SameStoreAndCounters(LastRecordFailed(w, at))
                   /\ \A orders \in CascadeOrders(World, s) :
                          LET r == DeleteNode(World, s, orders)
                          IN  RecordedLast(r.w, ActionDeleteNode) =>
                                  SameStoreAndCounters(
                                      LastRecordFailed(r.w, at))

\* the persisted node and edge counters of w are those of the current state
SameCounters(w) ==
    /\ w.diskHeader.NodeCount = diskHeader.NodeCount
    /\ w.diskHeader.EdgeCount = diskHeader.EdgeCount

\* C19: when a write or delete of the chunk store fails with an I/O error
\* at a step of AddNode, AddNodeWithID, AddLink or DeleteNode (the cascade
\* of link deletions included), the call returns an error and the persisted
\* node and edge counters are as before the call.
C19_StoreFailureKeepsCounters ==
    phase = "open" =>
        /\ \A c \in NodeContents :
               LET e == BeforeEnvelope(World, EmptyString, c, NoteType, NoMeta)
               IN  /\ \A fail \in PutFailures(World, c) :
                          LET r == AddNodeStoreFails(World, c, NoteType, NoMeta,
                                                     1, fail)
                          IN  r.err /\ SameCounters(r.w)
                   /\ \A fail \in PutFailures(e.w, e.data) :
                          LET r == AddNodeStoreFails(World, c, NoteType, NoMeta,
                                                     2, fail)
                          IN  r.err /\ SameCounters(r.w)
        /\ \A id \in CallerIDs, c \in IDContents :
               LET e == BeforeEnvelope(World, id, c, NoteType, WeightMeta)
               IN  /\ \A fail \in PutFailures(World, c) :
                          LET r == AddNodeWithIDStoreFails(
                                       World, id, c, NoteType, WeightMeta, 1,
                                       fail)
                          IN  r.err /\ SameCounters(r.w)
                   /\ \A fail \in PutWithIDFailures(e.w, id) :
                          LET r == AddNodeWithIDStoreFails(
                                       World, id, c, NoteType, WeightMeta, 2,
                                       fail)
                          IN  r.err /\ SameCounters(r.w)
        /\ \A s \in liveNodes, t \in liveNodes :
               \A fail \in PutFailures(
                                World,
                                NewLink(World, s, t, TestType, WeightMeta)) :
                   LET r == AddLinkStoreFails(World, s, t, TestType,
                                              WeightMeta, fail)
                   IN  r.err /\ SameCounters(r.w)
        /\ \A id \in liveNodes : \A orders \in CascadeOrders(World, id) :
               ~GetNode(World, id).err =>
                   \A at \in DeleteNodeFailures(World, id, orders) :
                       LET r == DeleteNodeStoreFails(World, id, orders, at)
                       IN  r.err /\ SameCounters(r.w)

\* the id is a key of no stored entry: neither its bytes nor, when it is
\* hex, the bytes it decodes to resolve in the index
Unresolved(w, id) ==
    /\ ~Resolve(w.index, id).ok
    /\ HexDecodeString(id).ok => ~Resolve(w.index, HexDecodeString(id).v).ok

\* C20: for every id that resolves to no stored entry under any key
\* representation, 64-character ids that are not hex included, GetNode and
\* DeleteNode return a not-found error, and DeleteNode leaves the node
\* counter, the chunk index and the action log unchanged.
C20_UnresolvedIdNotFound ==
    phase = "open" =>
        \A id \in KnownIDs : \A orders \in CascadeOrders(World, id) :
            Unresolved(World, id) =>
                /\ GetNode(World, id).err
                /\ LET r == DeleteNode(World, id, orders)
                   IN  /\ r.err
                       /\ r.w.header.NodeCount = header.NodeCount
                       /\ r.w.diskHeader.NodeCount = diskHeader.NodeCount
                       /\ r.w.index = index
                       /\ r.w.log = log

\* the link a record of the file holds
LinkOf(rec) == UnmarshalLink(rec.data).link

\* the record of the file holds, referenced, a link with these fields
StoredLink(rec, source, target, linkType) ==
    /\ rec.ref > 0
    /\ rec.data.k = "link"
    /\ LinkOf(rec).Source = source /\ LinkOf(rec).Target = target
    /\ LinkOf(rec).Type = linkType

\* C21: DeleteLink of a source, target and type that no stored link has
\* returns success and changes nothing: header, index, reference counts and
\* action log are as before.
C21_DeleteLinkNoMatchIsNoOp ==
    phase = "open" =>
        \A s \in KnownIDs \cup {EmptyString}, t \in KnownIDs \cup {EmptyString},
           ty \in LinkTypes \cup NodeTypes, order \in RangeOrders(World) :
            (\A off \in 1..Len(file) : ~StoredLink(file[off], s, t, ty))
                => DeleteLink(World, s, t, ty, order)
                       = [w |-> World, err |-> FALSE]

\* the nodes of the repository: the ids added and not deleted that GetNode
\* returns
RepoNodes == {id \in liveNodes : ~GetNode(World, id).err}

\* the links of the repository: the referenced link records of the file
RepoLinks ==
    {LinkOf(file[off]) :
        off \in {o \in 1..Len(file) :
                    file[o].ref > 0 /\ file[o].data.k = "link"}}

\* C24: Export always succeeds; the node count of the manifest is the number
\* of nodes/ entries and the edge count the number of edges/ entries, these
\* being exactly the nodes and the links of the repository; for an empty
\* repository the archive holds only the manifest, with both counts 0.
C24_ExportWritesExactlyTheRepository ==
    phase = "open" =>
        \A orders \in ExportOrders(World) :
            LET a == Export(World, orders)
            IN  /\ ~a.err
                /\ a.manifest.Nodes = Len(a.nodes)
                /\ a.manifest.Edges = Len(a.edges)
                /\ Len(a.nodes) = Cardinality(RepoNodes)
                /\ {a.nodes[i].ID : i \in 1..Len(a.nodes)} = RepoNodes
                /\ Len(a.edges) = Cardinality(RepoLinks)
                /\ {a.edges[i] : i \in 1..Len(a.edges)} = RepoLinks

\* the referenced link records of a file
LinkRecords(f) == {o \in 1..Len(f) : f[o].ref > 0 /\ f[o].data.k = "link"}

\* C22: exporting the repository and importing the archive with no prefix
\* into an empty destination reproduces every node under the same id with the
\* same content, type and metadata, and every link with the same source,
\* target, type and metadata; the destination holds no other node or link.
C22_RoundTripReproducesRepository ==
    phase = "open" =>
        \A orders \in ExportOrders(World) :
            LET a == Export(World, orders)
                r == Import(FreshWorld, a, FALSE)
            IN  /\ ~a.err /\ ~r.err
                /\ \A n \in RepoNodes :
                      LET s == GetNode(World, n).node
                          d == GetNode(r.w, n)
                      IN  /\ ~d.err
                          /\ d.node.ID = n
                          /\ d.node.Content = s.Content
                          /\ d.node.Type = s.Type
                          /\ d.node.Meta = s.Meta
                /\ \A l \in RepoLinks :
                      \E o \in LinkRecords(r.w.file) :
                          /\ StoredLink(r.w.file[o], l.Source, l.Target, l.Type)
                          /\ LinkOf(r.w.file[o]).Meta = l.Meta
                /\ r.w.header.NodeCount = Cardinality(RepoNodes)
                /\ Cardinality(LinkRecords(r.w.file)) = Cardinality(RepoLinks)

\* C23: importing an archive with the prefix "imported-" creates, for every
\* archived node of id X, a node of id "imported-"+X and, for every archived
\* link S -> T, a link "imported-"+S -> "imported-"+T; the endpoints of every
\* imported link are imported nodes, and the destination holds no node and
\* no link endpoint under an unprefixed id.
C23_PrefixedImportOnlyPrefixedIds ==
    phase = "open" =>
        \A orders \in ExportOrders(World) :
            LET a == Export(World, orders)
                r == Import(FreshWorld, a, TRUE)
                ids == {a.nodes[i].ID : i \in 1..Len(a.nodes)}
                imported == {PrefixID(x) : x \in ids}
            IN  ~a.err =>
                /\ ~r.err
                /\ \A x \in ids : ~GetNode(r.w, PrefixID(x)).err
                /\ \A i \in 1..Len(a.edges) :
                      \E o \in LinkRecords(r.w.file) :
                          StoredLink(r.w.file[o], PrefixID(a.edges[i].Source),
                                     PrefixID(a.edges[i].Target),
                                     a.edges[i].Type)
                /\ \A o \in LinkRecords(r.w.file) :
                      /\ LinkOf(r.w.file[o]).Source \in imported
                      /\ LinkOf(r.w.file[o]).Target \in imported
                /\ \A x \in ids : GetNode(r.w, x).err

\* a write of the call of thread t is still to be made: a chunk of the
\* content of its Put, or the count of an address of its Delete that resolves
WritesToMake(t) ==
    \/ pc[t] = "put" /\ pending[t].i <= Len(pending[t].chunks)
    \/ pc[t] = "putChunk"
    \/ /\ pc[t] = "delete"
       /\ \E i \in pending[t].i..Len(pending[t].addresses) :
             \/ pending[t].addresses[i] \in DOMAIN index
             \/ HexEncodeToString(pending[t].addresses[i]) \in DOMAIN index

\* the log holds a PutContent action of at least one chunk
PutLogged ==
    \E i \in 1..Len(log) :
        /\ Decodable(log[i])
        /\ UnmarshalAction(log[i]).Type = ActionPutContent
        /\ UnmarshalAction(log[i]).Payload.nchunks > 0

\* C25: the action of a mutation is appended to the log only after its data
\* writes: no call that has appended its action has a write still to make,
\* and the log holds no put action while the store file holds no chunk
\* record, at every point where the process can crash and after a restart.
C25_LogNeverAheadOfStore ==
    /\ \A t \in Threads :
          pc[t] \in {"put", "putChunk", "delete"} => ~WritesToMake(t)
    /\ PutLogged => Len(file) > 0

\* C26: when the last record of the log was truncated by a crash, opening
\* the log recovers the hash of the last complete action as the last hash,
\* so that the next recorded action chains from that action.
C26_TruncatedTailRecovered ==
    Len(log) > 0 =>
        \A r \in readLastAction(log \o <<TruncatedRecord>>) :
            /\ r.ok
            /\ r.hash = ActionHash(UnmarshalAction(log[Len(log)]))

\* the number of puts of one chunk that are followed
MaxPuts == 2

\* the store after k more calls of Put with the content
RECURSIVE PutTimes(_, _, _)
PutTimes(w, content, k) ==
    IF k = 0 THEN w ELSE PutTimes(Put(w, content).w, content, k - 1)

\* the store after j more calls of Delete with the address
RECURSIVE DeleteTimes(_, _, _)
DeleteTimes(w, addr, j) ==
    IF j = 0 THEN w ELSE DeleteTimes(Delete(w, <<addr>>).w, addr, j - 1)

\* the store after Close and NewStore
Reopened(w) == [w EXCEPT !.index = loadIndex(w.file, 0, EmptyIndex)]

\* the chunk is in the store for no caller: Put would write a new record
NotStored(content) ==
    /\ HexEncodeToString(Sha256(content)) \notin DOMAIN index
    /\ \A off \in 1..Len(file) :
          file[off].hash = Sha256(content) => file[off].ref = 0

\* C27: a chunk that has been put k times stays resolvable by Get after
\* j < k calls of Delete on its address, with its index entry kept, and after
\* exactly k deletes it resolves under neither its raw hash nor its hex
\* string; the same holds after the store is closed and opened again.
C27_ResolvableUntilLastDelete ==
    \A content \in {c \in StoreContents : Len(Split(c)) = 1} :
        NotStored(content) =>
            \A k \in 1..MaxPuts : \A j \in 0..k :
                LET addr == Sha256(content)
                    hashStr == HexEncodeToString(addr)
                    w == DeleteTimes(PutTimes(World, content, k), addr, j)
                IN  IF j < k
                    THEN /\ ~Get(w, <<addr>>).err
                         /\ hashStr \in DOMAIN w.index
                         /\ ~Get(Reopened(w), <<addr>>).err
                    ELSE /\ Get(w, <<addr>>).err
                         /\ Get(w, <<hashStr>>).err
                         /\ Get(Reopened(w), <<addr>>).err
                         /\ Get(Reopened(w), <<hashStr>>).err

\* the ids PutWithID is called with: the ids of the store operations and a
\* raw hash
PutIDs == StoreIDs \cup {Sha256(Bin(<<1>>))}

\* C28: after PutWithID(id, c), Get of the id returns exactly c, whatever the
\* id held before; the record the id had has its reference count lowered by
\* one (a count of zero stays zero), every other record is as before, and
\* exactly one record is appended,
\* holding c whole with reference count 1, also when c is already stored or
\* is longer than one chunk.
C28_PutWithIDReplaces ==
    \A id \in PutIDs, content \in StoreContents :
        LET p == PutWithID(World, id, content)
            r == p.w
            prior == IF id \in DOMAIN index THEN {index[id]} ELSE {}
        IN  /\ ~p.err
            /\ Get(r, <<id>>) = [err |-> FALSE, data |-> content]
            /\ Len(r.file) = Len(file) + 1
            /\ r.file[Len(r.file)]
                   = [hash |-> Sha256(content), data |-> content, ref |-> 1,
                      sum |-> "ok"]
            /\ \A off \in 1..Len(file) :
                   /\ r.file[off].data = file[off].data
                   /\ r.file[off].ref =
                          IF off \in prior /\ file[off].ref > 0
                          THEN file[off].ref - 1 ELSE file[off].ref

\* PutWithID has replaced what an id held: the id resolves to a record that
\* was written after a record of the same content whose count is now zero
C28_Witness ==
    \E id \in StoreIDs :
        /\ id \in DOMAIN index
        /\ file[index[id]].data \in KeyedContents
        /\ file[index[id]].ref = 1
        /\ \E off \in 1..(index[id] - 1) :
              file[off].data \in KeyedContents /\ file[off].ref = 0

\* C29: opening a repository file that holds a chunk record whose header
\* checksum does not match fails: no repository is open on such a file.
C29_BadChunkChecksumFailsOpen ==
    (\E i \in 1..Len(file) : IsRecord(file[i]) /\ file[i].sum = "bad")
        => phase # "open"

\* C30: after stray bytes of any length the scan of Open finds the records
\* again: every record with a reference count above zero that follows stray
\* bytes is indexed under the hex string and the raw bytes of its hash.
C30_ScanRealignsAfterStrayBytes ==
    phase = "open" =>
        \A i \in 1..Len(file) :
            (/\ IsRecord(file[i]) /\ file[i].ref > 0
             /\ \E j \in 1..(i - 1) : ~IsRecord(file[j]))
                => /\ HexEncodeToString(file[i].hash) \in DOMAIN index
                   /\ file[i].hash \in DOMAIN index

\* C31: the repository file is append-only apart from its header: no step
\* changes any byte of a chunk record that was written, its header included,
\* and the file never gets shorter.
C31_RecordsNeverChange ==
    [][/\ Len(file') >= Len(file)
       /\ \A off \in 1..Len(file) : file'[off] = file[off]]_vars

\* C31, as the code has it: no step changes the payload or the hash of a
\* chunk record that was written, and the file never gets shorter; the
\* reference count in the header of a record is rewritten in place.
C31_PayloadsNeverChange ==
    [][/\ Len(file') >= Len(file)
       /\ \A off \in 1..Len(file) :
             /\ file'[off].data = file[off].data
             /\ file'[off].hash = file[off].hash]_vars

\* a record whose reference count was rewritten: counted twice, or brought
\* to zero, with later records after it
C31_Witness ==
    \E off \in 1..Len(file) :
        /\ file[off].ref # 1
        /\ off < Len(file)

\* the number of actions of a type in a log
CountActions(lg, actionType) ==
    Cardinality({i \in 1..Len(lg) : lg[i].Type = actionType})

\* the call appended its action last, and no other action of that type
AppendedOne(lg, actionType) ==
    /\ Len(lg) > Len(log)
    /\ lg[Len(lg)].Type = actionType
    /\ CountActions(lg, actionType) = CountActions(log, actionType) + 1
    /\ \A i \in 1..Len(log) : lg[i] = log[i]

\* a call of one of the read operations
ReadCall ==
    /\ CanCall
    /\ \/ \E id \in NodeIDs : DoGetNode(id)
       \/ \E id \in NodeIDs : DoGetContent(id)
       \/ \E id \in Endpoints, order \in RangeOrders(World) :
              DoGetLinks(id, order)
       \/ \E order \in FirstOrders(World) : DoListNodes(order)

\* each mutation a step of the repository can make in the state appends one
\* action of its own type
MutationsAppendOne ==
    phase = "open" /\ ops < MaxOps =>
        /\ \A c \in NodeContents, ty \in NodeTypes :
              \A r \in {AddNode(World, c, ty, NoMeta)} :
                  ~r.err =>
                      /\ AppendedOne(r.w.log, ActionAddNode)
                      /\ r.w.log[Len(r.w.log)].Payload.id = r.id
        /\ \A id \in CallerIDs, c \in IDContents, ty \in NodeTypes :
              \A r \in {AddNodeWithID(World, id, c, ty, WeightMeta)} :
                  ~r.err =>
                      /\ AppendedOne(r.w.log, ActionAddNode)
                      /\ r.w.log[Len(r.w.log)].Payload.id = id
        /\ \A id \in NodeIDs : \A orders \in CascadeOrders(World, id) :
              \A r \in {DeleteNode(World, id, orders)} :
                  ~r.err =>
                      /\ AppendedOne(r.w.log, ActionDeleteNode)
                      /\ r.w.log[Len(r.w.log)].Payload.id = id
        /\ \A s \in Endpoints : \A t \in Endpoints \ {s}, ty \in LinkTypes :
              \A r \in {AddLink(World, s, t, ty, WeightMeta)} :
                  ~r.err =>
                      /\ AppendedOne(r.w.log, ActionAddLink)
                      /\ r.w.log[Len(r.w.log)].Payload.source = s
                      /\ r.w.log[Len(r.w.log)].Payload.target = t
                      /\ r.w.log[Len(r.w.log)].Payload.type = ty
        /\ \A s \in Endpoints : \A t \in Endpoints \ {s}, ty \in LinkTypes,
              order \in RangeOrders(World) :
              \A w \in {DeleteLink(World, s, t, ty, order).w} :
                  w.file # file =>
                      /\ AppendedOne(w.log, ActionDeleteLink)
                      /\ w.log[Len(w.log)].Payload.source = s
                      /\ w.log[Len(w.log)].Payload.target = t
                      /\ w.log[Len(w.log)].Payload.type = ty

\* C32: every successful AddNode, AddNodeWithID, DeleteNode and AddLink, and
\* every DeleteLink that removes a link, appends before it returns exactly
\* one action of its own type, which carries the id of the node or the
\* source, target and type of the link; and every call of GetNode,
\* GetContent, GetLinks and ListNodes leaves the action log, the hash of
\* its last record, the header in memory and the header in the file as
\* they were.  The calls are those a step of the repository can make.
C32_OneActionPerMutation ==
    /\ []MutationsAppendOne
    /\ [][ReadCall => /\ log' = log
                      /\ lastHash' = lastHash
                      /\ header' = header
                      /\ diskHeader' = diskHeader]_vars

\* the log holds the AddNode of a node and the AddLink of a link from it,
\* each with the id or the source, target and type of its call, and the
\* read operations can be called and find them: GetNode and GetContent
\* return the node, GetLinks the link and ListNodes the ids of both
C32_Witness ==
    /\ phase = "open" /\ ops < MaxOps
    /\ \E i \in 1..Len(log), j \in 1..Len(log) :
           /\ i < j
           /\ log[i].Type = ActionAddNode
           /\ log[j].Type = ActionAddLink
           /\ log[j].Payload.source = log[i].Payload.id
           /\ ~GetNode(World, log[i].Payload.id).err
           /\ ~GetContent(World, log[i].Payload.id).err
           /\ GetLinks(World, log[i].Payload.id, <<>>) # <<>>
           /\ Len(ListNodes(World, <<>>)) >= 2

\* the links are in the order GetLinks promises: creation times do not
\* decrease, and of two links of one creation time that both carry an order
\* the one of the smaller order comes first
InLinkOrder(ls) ==
    \A i \in 1..Len(ls) : \A j \in (i + 1)..Len(ls) :
        /\ ~TimeBefore(ls[j].Created, ls[i].Created)
        /\ (TimeEqual(ls[i].Created, ls[j].Created)
               /\ HasOrder(ls[i]) /\ HasOrder(ls[j]))
               => ~NumLess(ls[j].Meta[OrderKey], ls[i].Meta[OrderKey])

\* C33: GetLinks of n returns exactly the stored links whose source or target
\* is n, each once, in non-decreasing order of creation time, links of equal
\* creation time that both carry an order by that order.
C33_GetLinksExactAndOrdered ==
    phase = "open" =>
        \A n \in KnownIDs \cup {EmptyString}, order \in RangeOrders(World) :
            \A ls \in {GetLinks(World, n, order)} :
                /\ {ls[i] : i \in 1..Len(ls)}
                       = {l \in RepoLinks : l.Source = n \/ l.Target = n}
                /\ \A i \in 1..Len(ls) : \A j \in 1..Len(ls) :
                       ls[i] = ls[j] => i = j
                /\ InLinkOrder(ls)

\* C34: the repository header written at offset 0 occupies exactly 128 bytes,
\* so the first chunk record of the file starts at offset 128.
C34_HeaderOccupies128Bytes ==
    /\ BinarySize(HeaderWidths) = 128
    /\ Len(file) > 0 => StartOf(file, 1) = 128

\* C35: while the repository is open, the node counter of the header is the
\* number of distinct ids that were added as nodes and are retrievable.
C35_NodeCountIsRetrievableNodes ==
    phase = "open" => header.NodeCount = Cardinality(RepoNodes)

\* C36: while the repository is open, the edge counter of the header is the
\* number of link records that the link queries can find.
C36_EdgeCountIsFindableLinks ==
    phase = "open" => header.EdgeCount = Cardinality(LinkRecords(file))

\* C37: once every node that was added has been deleted by a successful
\* DeleteNode, ListChunks is empty: no chunk stored for a node or a link
\* keeps an index entry.
C37_NoIndexEntryLeaks ==
    (phase = "open" /\ liveNodes = {} /\ deadNodes # {}) =>
        \A order \in FirstOrders(World) : ListChunks(World, order) = <<>>

\* C38: the link operations act only on records AddLink created: after a
\* DeleteLink of any source, target and type every node that was retrievable
\* is retrievable with the same content, and every entry GetLinks returns is
\* a stored link.
C38_LinkOperationsTouchOnlyLinks ==
    phase = "open" =>
        /\ \A s \in KnownIDs \cup {EmptyString},
              t \in KnownIDs \cup {EmptyString},
              ty \in LinkTypes \cup NodeTypes, order \in RangeOrders(World) :
               \A w \in {DeleteLink(World, s, t, ty, order).w} :
                   \A id \in RepoNodes :
                       /\ ~GetNode(w, id).err
                       /\ GetNode(w, id).node.Content
                              = GetNode(World, id).node.Content
        /\ \A n \in KnownIDs \cup {EmptyString},
              order \in RangeOrders(World) :
               \A ls \in {GetLinks(World, n, order)} :
                   \A i \in 1..Len(ls) : ls[i] \in RepoLinks

\* C39: a GetHistory that ran beside other GetHistory calls returns no error
\* and returns every action the log held during the call, in log order.
C39_ConcurrentHistoryComplete ==
    \A t \in Threads :
        pc[t] = "returned" =>
            /\ ~pending[t].err
            /\ pending[t].actions
                   = SubSeq(GetHistory(log).actions, 1, pending[t].size)

====
